---- MODULE Spec2Model ----
(***************************************************************************)
(* A model of homebridge-genie-aladdin-connect: the AladdinConnect door    *)
(* state service (status lock, door status cache, token cache, pub/sub     *)
(* poll loops) and the request() retry executor of axioRequests.ts.        *)
(*                                                                         *)
(* The service runs on the single threaded event loop of Node.js.  One     *)
(* action of the model is one macrotask: an API call up to its first       *)
(* suspension, a timer callback, or the arrival of an HTTP response with   *)
(* every continuation that runs before the loop takes the next event.      *)
(***************************************************************************)
EXTENDS Integers, Sequences, FiniteSets, TLC

\* ------------------------------------------------------------- bounds
MaxSubs == 2        \* subscribe() calls made in one run
MaxCalls == 3       \* getDoorStatus()/setDoorStatus() calls made from outside
TimeStep == 5       \* seconds that pass in one Advance step
MaxTries == 3       \* the largest retry.maxTries a caller of request() gives
TokenStep == 150    \* seconds that pass in one step of the credential's age
TokenHorizon == 3900 \* the age up to which a credential is followed

Doors == {1, 2}     \* two doors; both behind the one DOOR_STATUS lock
CallDoors == {1, 2} \* the doors that the calls from outside are about

\* ------------------------------------------- constants of the program
UNKNOWN == 0
OPENING == 2
CLOSED == 4
CLOSING == 5
NOT_CONFIGURED == 7

USER_DATA_CACHE_TTL_S_DEFAULT == 60 * 60
USER_DATA_CACHE_TTL_S_MIN == 5 * 60
USER_DATA_CACHE_TTL_S_MAX == 24 * 60 * 60
DOOR_STATUS_STATIONARY_CACHE_TTL_S_DEFAULT == 15
DOOR_STATUS_STATIONARY_CACHE_TTL_S_MIN == 5
DOOR_STATUS_STATIONARY_CACHE_TTL_S_MAX == 60
DOOR_STATUS_TRANSITIONING_CACHE_TTL_S_DEFAULT == 5
DOOR_STATUS_TRANSITIONING_CACHE_TTL_S_MIN == 1
DOOR_STATUS_TRANSITIONING_CACHE_TTL_S_MAX == 30
DOOR_STATUS_POLL_INTERVAL_MS_DEFAULT == 15000
DOOR_STATUS_POLL_INTERVAL_MS_MIN == 5000
DOOR_STATUS_POLL_INTERVAL_MS_MAX == 60000

Absent == -1        \* a configuration option that is not given

\* AladdinConnectConfig: the optional settings are left out (the defaults).
config ==
  [doorStatusStationaryCacheTtl |-> Absent,
   doorStatusTransitioningCacheTtl |-> Absent,
   doorStatusPollInterval |-> Absent]

Min(a, b) == IF a < b THEN a ELSE b
Max(a, b) == IF a > b THEN a ELSE b
Coalesce(v, dflt) == IF v = Absent THEN dflt ELSE v

\* The getters, for the configuration c.
stationaryCacheTtl(c) ==
  Max(DOOR_STATUS_STATIONARY_CACHE_TTL_S_MIN,
      Min(DOOR_STATUS_STATIONARY_CACHE_TTL_S_MAX,
          Coalesce(c.doorStatusStationaryCacheTtl,
                   DOOR_STATUS_STATIONARY_CACHE_TTL_S_DEFAULT)))

TransitioningUnclamped(c) ==
  Coalesce(c.doorStatusTransitioningCacheTtl,
           DOOR_STATUS_TRANSITIONING_CACHE_TTL_S_DEFAULT)
transitioningCacheTtl(c) ==
  Max(DOOR_STATUS_TRANSITIONING_CACHE_TTL_S_MIN,
      Min(DOOR_STATUS_TRANSITIONING_CACHE_TTL_S_MAX,
          Coalesce(c.doorStatusTransitioningCacheTtl,
                   DOOR_STATUS_TRANSITIONING_CACHE_TTL_S_DEFAULT)))

doorStatusStationaryCacheTtl == stationaryCacheTtl(config)

doorStatusTransitioningCacheTtl == transitioningCacheTtl(config)

\* The ttl function of getDoorStatus, for the configuration c.
ttlPolicy(c, st) ==
  IF Coalesce(st, UNKNOWN) \in {CLOSING, OPENING}
  THEN transitioningCacheTtl(c)
  ELSE stationaryCacheTtl(c)

\* The configurations the ttl policy is followed for, and the policy before
\* it was applied.  status, ttl: the status it was last given, and the ttl
\* it gave; transitioning, stationary: the ttl it last gave for an OPENING
\* or CLOSING status, and for another status (0: none yet).
TtlOptions == {Absent, 0, 1, 5, 15, 30, 60, 100}
Configs ==
  {[config EXCEPT !.doorStatusStationaryCacheTtl = s,
                  !.doorStatusTransitioningCacheTtl = t] :
     s \in TtlOptions, t \in TtlOptions}
NoPolicy(c) ==
  [config |-> c, status |-> Absent, ttl |-> 0, transitioning |-> 0,
   stationary |-> 0]

PollIntervalUnclamped(c) ==
  Coalesce(c.doorStatusPollInterval, DOOR_STATUS_POLL_INTERVAL_MS_DEFAULT)
pollIntervalMs(c) ==
  Max(DOOR_STATUS_POLL_INTERVAL_MS_MIN,
      Min(DOOR_STATUS_POLL_INTERVAL_MS_MAX,
          Coalesce(c.doorStatusPollInterval,
                   DOOR_STATUS_POLL_INTERVAL_MS_DEFAULT)))

pollInterval == pollIntervalMs(config)

\* ------------------------------------------------------------- values
\* An AladdinDoorStatusInfo | null.
Info(st) == [nul |-> FALSE, status |-> st]
NullInfo == [nul |-> TRUE, status |-> UNKNOWN]
NoVal == NullInfo

\* What a state read can answer: a stationary or a transitioning status, or
\* no name for the door (the null result of the exosite variant).
ReadOutcomes == {"closed", "closing", "null", "fail"}
ReadValue(o) ==
  IF o = "closed" THEN Info(CLOSED)
  ELSE IF o = "closing" THEN Info(CLOSING)
  ELSE NullInfo

\* The ttl function handed to cache.wrap by getDoorStatus.
TtlAlwaysStationary(info) == doorStatusStationaryCacheTtl
StatusTtl(info) ==
  IF (IF info.nul THEN UNKNOWN ELSE info.status) \in {CLOSING, OPENING}
  THEN doorStatusTransitioningCacheTtl
  ELSE doorStatusStationaryCacheTtl

\* The ttl function handed to cache.wrap by getAllDoors of the Cognito
\* variant: one entry holds the list of all the doors.
StatusValues == UNKNOWN..NOT_CONFIGURED
InfoOf(st) == IF st = Absent THEN NullInfo ELSE Info(st)
AllDoorsTtl(doors) ==
  IF \E d \in DOMAIN doors : Coalesce(doors[d], UNKNOWN) \in {CLOSING, OPENING}
  THEN doorStatusTransitioningCacheTtl
  ELSE doorStatusStationaryCacheTtl

\* A cache entry.  left: the seconds it has to live.  stale is a ghost: the
\* value was read while a write command for the door came back.
NoEntry == [present |-> FALSE, val |-> NoVal, left |-> 0, stale |-> FALSE]
Entry(v, ttl, st) == [present |-> TRUE, val |-> v, left |-> ttl, stale |-> st]

\* mustMiss: a setDoorStatus has completed and no getAllDoors has been
\* called since (ghost).
NoList == [present |-> FALSE, val |-> [d \in Doors |-> Absent], ttl |-> 0,
           left |-> 0, perDoor |-> [d \in Doors |-> 0], mustMiss |-> FALSE]

\* The keys of the cache of the Cognito variant: the list is stored under
\* 'getAllDoors'; doorStatusCacheKey(door) is `${deviceId}:${index}`.
AllDoorsKey == [k |-> "getAllDoors", door |-> 0]
doorStatusCacheKey(d) == [k |-> "deviceId:index", door |-> d]

\* cache.del(key), for the cache that holds the list under AllDoorsKey.
cacheDel(list, key) ==
  IF key = AllDoorsKey THEN [NoList EXCEPT !.mustMiss = list.mustMiss] ELSE list

\* The credential cache.  api: the class in use (getOauthToken of the oauth
\* variant, getAccessToken of the Cognito variant); userInfoCacheTtl: the
\* configured value; expiresIn: the lifetime the login response declared;
\* age: seconds since that response; served: how the last call for the
\* credential ended ("hit": from the cache, "login": by a new login,
\* "error": the login failed), at which age of which credential.
Apis == {"oauth", "cognito"}
ExpiresIns == {300, 600, 3600}
UserInfoCacheTtls == {Absent, 300}
TokenMargin == 30
NoServed == [k |-> "none", age |-> 0, expiresIn |-> 0]
NoCred(api, cfg) ==
  [api |-> api, userInfoCacheTtl |-> cfg, present |-> FALSE, expiresIn |-> 0,
   ttl |-> 0, age |-> 0, served |-> NoServed]

userInfoCacheTtl(cfg) ==
  Max(USER_DATA_CACHE_TTL_S_MIN,
      Min(USER_DATA_CACHE_TTL_S_MAX,
          Coalesce(cfg, USER_DATA_CACHE_TTL_S_DEFAULT)))

\* AladdinConnectConfig with its four numeric options, the values each is
\* followed for (Absent: not given), and the settings before a getter ran.
FullConfig(s, t, p, u) ==
  [doorStatusStationaryCacheTtl |-> s, doorStatusTransitioningCacheTtl |-> t,
   doorStatusPollInterval |-> p, userInfoCacheTtl |-> u]
TtlSettings == {Absent, -5, 0, 1, 4, 5, 15, 30, 31, 60, 61}
PollSettings == {Absent, -5, 0, 4999, 5000, 15000, 60000, 60001}
UserInfoSettings == {Absent, -5, 0, 299, 300, 3600, 86400, 86401}
FullConfigs ==
  {FullConfig(s, t, p, u) : s \in TtlSettings, t \in TtlSettings,
                            p \in PollSettings, u \in UserInfoSettings}
NoSettings(c) ==
  [config |-> c, read |-> FALSE, pollInterval |-> 0, stationary |-> 0,
   transitioning |-> 0, userInfo |-> 0]

\* The ttl handed to cache.wrap with the credential.
TokenTtl(api, cfg, expiresIn) ==
  IF api = "cognito" THEN expiresIn - TokenMargin
  ELSE userInfoCacheTtl(cfg)

\* The platform.  showShared: the configured value ("unset": none); account: the doors the
\* backend lists for the account, with device.ownership ("none": no such
\* door); up: the backend answers; pc: "starting" until didFinishLaunching,
\* "discovering" while discoverDevices awaits getAllDoors, "done" when it
\* returned, "failed" when it rejected; accessories: this.accessories, the
\* accessories restored from disk; registered: the accessories Homebridge
\* holds for the plugin; ownership: context.door.ownership of each.
Ownerships == {"owned", "shared"}
Accounts == [Doors -> Ownerships \cup {"none"}]
NoAccount == [d \in Doors |-> "none"]
NoPlatform(sh, acc, up) ==
  [showShared |-> sh, account |-> acc, up |-> up, pc |-> "starting",
   accessories |-> {}, registered |-> {}, ownership |-> NoAccount]

\* The doors getAllDoors returns for the account: every door of every
\* device, owned or shared; config.showShared is not read.
listedDoors(sh, acc) == {d \in Doors : acc[d] # "none"}

NoRes == [k |-> "none", v |-> NoVal, ok |-> FALSE]
ValRes(v) == [k |-> "val", v |-> v, ok |-> TRUE]
ErrRes == [k |-> "err", v |-> NoVal, ok |-> FALSE]
SetRes(ok) == [k |-> "set", v |-> NoVal, ok |-> ok]

\* ---------------------------------------------------------- request(): data
\* The defaults of the retry configuration.
DefaultRetryOnStatus == {408, 429, 500, 502, 503, 504}
DefaultBackoffFactorMs == 100
DefaultMaxBackoffMs == 10000

\* config.retry and the expected-error handlers a caller gives.
\* retry.maxTries as the caller gives it: no such key, the key with the
\* value undefined, NaN, a string, or a number, written in halves (5: 2.5).
NoMaxTries == [t |-> "absent", halves |-> 0]
Number(n) == [t |-> "number", halves |-> 2 * n]
MaxTriesValues ==
  {NoMaxTries, [t |-> "undefined", halves |-> 0], [t |-> "NaN", halves |-> 0],
   [t |-> "string", halves |-> 6], [t |-> "number", halves |-> 1],
   [t |-> "number", halves |-> 5]}
    \cup {Number(n) : n \in -1..MaxTries}

\* Number.isInteger
isInteger(v) == v.t = "number" /\ v.halves % 2 = 0

\* const retry = {maxTries: ..., ...config.retry}; retry.maxTries =
\* Number.isInteger(retry.maxTries) ? Math.max(retry.maxTries, 1) : 1
ThreeForAll(method, v) ==
  IF v.t = "absent" THEN 3
  ELSE IF isInteger(v) THEN Max(v.halves \div 2, 1) ELSE 1
toLowerCase(method) == IF method = "GET" THEN "get" ELSE method
maxTriesOf(method, v) ==
  IF v.t = "absent" THEN (IF toLowerCase(method) = "get" THEN 3 ELSE 1)
  ELSE IF isInteger(v) THEN Max(v.halves \div 2, 1) ELSE 1

RetryConfigs ==
  [maxTries : MaxTriesValues,
   retryOnStatus : {{Absent}, {503}, {}},
   backoffFactorMs : {Absent},
   maxBackoffMs : {Absent, 300}]
\* onErrorStatus: the statuses with an entry; onClientError, onServerError:
\* a function is given; throws: the handlers of the caller raise (they are
\* typed to) rather than yield a value.
Handlers ==
  [onErrorStatus : {{}, {503}}, onClientError : BOOLEAN,
   onServerError : BOOLEAN, throws : BOOLEAN]
Methods == {"get", "GET", "post"}

\* The retry object request(): data builds from the defaults and config.retry, with
\* maxTries made an integer of at least 1.
retryOf(method, r) ==
  [maxTries |-> maxTriesOf(method, r.maxTries),
   retryOnStatus |-> IF r.retryOnStatus = {Absent} THEN DefaultRetryOnStatus
                     ELSE r.retryOnStatus,
   backoffFactorMs |-> Coalesce(r.backoffFactorMs, DefaultBackoffFactorMs),
   maxBackoffMs |-> Coalesce(r.maxBackoffMs, DefaultMaxBackoffMs)]

\* The Retry-After header of a response: missing, a number of seconds, an
\* HTTP date (ms: how far from now it is), or text that is neither.
RetryAfters ==
  {[form |-> "none", n |-> 0], [form |-> "junk", n |-> 0],
   [form |-> "secs", n |-> 0], [form |-> "secs", n |-> 1],
   [form |-> "secs", n |-> 20], [form |-> "secs", n |-> -5],
   [form |-> "date", n |-> 2000], [form |-> "date", n |-> -3000]}
NoHeader == [form |-> "none", n |-> 0]

\* How one attempt of axios.request can end.  "network" is an AxiosError
\* without a response; axios raises ECONNABORTED with a message that names
\* the timeout when the timeout of the request is up.
Statuses == {404, 500, 503}
Answers ==
  {[kind |-> "ok", status |-> 200, ra |-> NoHeader, code |-> "", timeoutMsg |-> FALSE]}
  \cup {[kind |-> "status", status |-> st, ra |-> h, code |-> "", timeoutMsg |-> FALSE] :
          st \in Statuses, h \in RetryAfters}
  \cup {[kind |-> "network", status |-> 0, ra |-> NoHeader, code |-> c, timeoutMsg |-> m] :
          c \in {"ETIMEOUT", "ECONNABORTED", "ETIMEDOUT", "ECONNRESET"}, m \in BOOLEAN}
  \cup {[kind |-> "thrown", status |-> 0, ra |-> NoHeader, code |-> "", timeoutMsg |-> FALSE]}
NoAnswer == [kind |-> "none", status |-> 0, ra |-> NoHeader, code |-> "", timeoutMsg |-> FALSE]

\* parseRetryAfter(response): milliseconds, or Absent for null.
parseRetryAfter(h) ==
  IF h.form = "secs" THEN Max(0, h.n * 1000)
  ELSE IF h.form = "date" THEN Max(0, h.n)
  ELSE Absent

\* The handler request() picks for a response status: valueOrFn.
GenericHandlerFirst(hd, st) ==
  IF hd.onClientError /\ st >= 400 /\ st < 500 THEN "onClientError"
  ELSE IF hd.onServerError /\ st >= 500 THEN "onServerError"
  ELSE IF st \in hd.onErrorStatus THEN "onErrorStatus"
  ELSE "none"
handlerFor(hd, st) ==
  IF st \in hd.onErrorStatus THEN "onErrorStatus"
  ELSE IF hd.onClientError /\ st >= 400 /\ st < 500 THEN "onClientError"
  ELSE IF hd.onServerError /\ st >= 500 THEN "onServerError"
  ELSE "none"

\* The response status has an expected-error handler.
expectedErrorStatus(hd, st) == handlerFor(hd, st) # "none"

\* timeout = code === 'ETIMEOUT' || (code === 'ECONNABORTED' && /timeout/.test(message))
TimeoutOnlyByCode(a) == a.kind = "network" /\ a.code = "ETIMEOUT"
NoResponseIsTimeout(a) == a.kind = "network"
isTimeout(a) ==
  /\ a.kind = "network"
  /\ a.code = "ETIMEOUT" \/ (a.code = "ECONNABORTED" /\ a.timeoutMsg)

\* tries === retry.maxTries
NeverExhausted(tries, maxTries) == FALSE
exhausted(tries, maxTries) == tries = maxTries

\* The backoff delay, computed after `tries += 1`.
\* response && !retry.retryOnStatus.includes(response.status)
AnyStatusRetried(retry, st) == FALSE
notRetryable(retry, st) == st \notin retry.retryOnStatus

\* retryDelayMs && retryDelayMs > retry.maxBackoffMs
NeverOverMaxBackoff(retryDelayMs, retry) == FALSE
overMaxBackoff(retryDelayMs, retry) ==
  retryDelayMs # Absent /\ retryDelayMs # 0 /\ retryDelayMs > retry.maxBackoffMs

BackoffUncapped(retry, tries) == retry.backoffFactorMs * 2^(tries - 1)
backoff(retry, tries) ==
  Min(retry.maxBackoffMs, retry.backoffFactorMs * 2^(tries - 1))

NoRetryConfig == [maxTries |-> NoMaxTries, retryOnStatus |-> {Absent},
                  backoffFactorMs |-> Absent, maxBackoffMs |-> Absent]
NoRetry == retryOf("post", NoRetryConfig)
\* method, given: the method and config.retry of the call (ghosts).
NoRequest ==
  [pc |-> "idle", method |-> "post", given |-> NoRetryConfig,
   retry |-> NoRetry, handlers |-> CHOOSE h \in Handlers : TRUE,
   tries |-> 0, attempts |-> 0, last |-> NoAnswer, result |-> "none",
   by |-> "none", sleeps |-> <<>>]

\* ------------------------------------------------- the session: data
\* The three classes AladdinConnect: the exosite API, the oauth API and the
\* Cognito API.
Variants == {"exosite", "oauth", "cognito"}

\* axiosRetry(this.session, { retries: 3, ... })
retries == 3

\* The HTTP calls of the service and the method each is made with.
SessionCalls == {"login", "read", "command"}
sessionMethod(variant, call) ==
  IF variant = "exosite" THEN (IF call = "login" THEN "get" ELSE "post")
  ELSE (IF call = "read" THEN "get" ELSE "post")

\* How an attempt ends: a response of status 2xx, a response of another
\* status, or no response: the timeout of the session is up (axios rejects
\* with code ECONNABORTED), the connection is reset, the host is not found.
SessionStatuses == {400, 404, 503}
SessionAnswers ==
  {[kind |-> "ok", status |-> 200, code |-> ""]}
  \cup {[kind |-> "status", status |-> st, code |-> ""] : st \in SessionStatuses}
  \cup {[kind |-> "none", status |-> 0, code |-> c] :
          c \in {"ECONNABORTED", "ECONNRESET", "ENOTFOUND"}}

\* axios-retry, isNetworkOrIdempotentRequestError: the retryCondition when
\* none is given. A timed out request is not a network error.
isRetryAllowed(code) == code # "ENOTFOUND"
isNetworkError(e) ==
  e.kind = "none" /\ e.code # "" /\ e.code # "ECONNABORTED" /\ isRetryAllowed(e.code)
isRetryableError(e) ==
  e.code # "ECONNABORTED" /\ (e.kind = "none" \/ (e.status >= 500 /\ e.status <= 599))
isIdempotentRequestError(e, method) ==
  isRetryableError(e) /\ method \in {"get", "head", "options", "put", "delete"}
isNetworkOrIdempotentRequestError(e, method) ==
  isNetworkError(e) \/ isIdempotentRequestError(e, method)

\* retryCondition: (error) => !error.response || error.response.status >= 400,
\* and the default one in the exosite class.
retryCondition(variant, e, method) ==
  IF variant = "exosite" THEN isNetworkOrIdempotentRequestError(e, method)
  ELSE e.kind = "none" \/ e.status >= 400

\* No call is under way. log: how each attempt of the call ended.
NoSession(variant) ==
  [variant |-> variant, call |-> "none", method |-> "", pc |-> "idle",
   retryCount |-> 0, log |-> <<>>]

\* -------------------------------------------------------------- state
VARIABLES
  cache,        \* door -> entry of the door status cache (left: seconds to live)
  token,        \* whether the token cache holds a live credential
  subs,         \* PubSub token -> door it is subscribed to (0: none)
  nextTok,      \* the next PubSub token
  loops,        \* poll loop (named by the token that started it) -> its state
  calls,        \* outside call -> its state
  lockq,        \* the DOOR_STATUS lock: holder first, then the waiters, FIFO
  pubq,         \* publications handed to PubSub.publish, not yet delivered
  mustMiss,     \* door -> a setDoorStatus returned and no read came since (ghost)
  lastDelivery, \* the last delivery PubSub made (ghost)
  rq,           \* the one call of request() that is followed
  allDoors,     \* the cache entry under 'getAllDoors' (the Cognito variant)
  cred,         \* the cache entry of the credential, with its age in seconds
  plat,         \* the platform: discovery of the doors at startup
  policy,       \* the ttl policy: a configuration and the ttl of a status
  session,      \* one HTTP call through this.session, with axios-retry
  settings,     \* the configuration given, and the settings the getters answer
  accessory           \* one accessory: its fields and what it pushed to its characteristics

vars == <<cache, token, subs, nextTok, loops, calls, lockq, pubq, mustMiss,
          lastDelivery, rq, allDoors, cred, plat, policy, session,
          settings,
          accessory>>

Tokens == 1..MaxSubs
CallIds == 1..MaxCalls

\* A poll loop.  delay: the delay of its pending timer; last: how its last
\* tick ended (ghost); stale: see NoEntry (ghost); timers: the timers of the
\* loop that are pending, ticks: the calls of poll() that passed the
\* subscriber check and have not ended (ghosts).
NoLoop == [door |-> 0, pc |-> "off", delay |-> 0, last |-> "none",
           stale |-> FALSE, timers |-> 0, ticks |-> 0]
\* The onSet handler of TargetDoorState, in the two revisions of the
\* accessory: it awaits setDoorStatus, which ended with `res`.  The revision
\* of platformAccessory.ts catches the error and throws the HapStatusError;
\* the earlier one lets the error of setDoorStatus through.
Accessories == {"platformAccessory", "part_002"}
setTargetDoorState(a, res) ==
  IF res.k # "err" THEN "completed"
  ELSE IF a = "platformAccessory" THEN "SERVICE_COMMUNICATION_FAILURE"
  ELSE "error"

\* ------------------------------------------------ the accessory: data
\* AladdinDoorStatus and AladdinDesiredDoorStatus.
OPEN == 1
TIMEOUT_OPENING == 3
TIMEOUT_CLOSING == 6
DESIRED_CLOSED == 0
DESIRED_OPEN == 1
NONE == 99
DesiredValues == {DESIRED_CLOSED, DESIRED_OPEN, NONE}

DEFAULT_STATUS_LOW_BATTERY_PERCENT == 15

\* AladdinDoorStatusInfo, as the subscriber callback gets it; batteryPercent
\* Absent is null.  platform.config.batteryLowLevel, Absent when not given.
BatteryPercents == {Absent, -5, 15, 16, 120}
BatteryLowLevels == {Absent, 50}
Updates ==
  [status : StatusValues, desiredStatus : DesiredValues, fault : BOOLEAN,
   batteryPercent : BatteryPercents]

\* The values HomeKit asks TargetDoorState to be set to.
TargetValues == {"OPEN", "CLOSED", "other"}

\* The last handler that ran.  op: "update" or "set"; desiredStatus, fault:
\* what the update reported; battery: the update set the battery level;
\* target: the desired status asked for, and was: the desired status of the
\* accessory at that time; sent: the calls of setDoorStatus the handler made;
\* raised: the error it ended with.
NoHandler ==
  [op |-> "none", desiredStatus |-> NONE, fault |-> FALSE, battery |-> FALSE,
   target |-> Absent, was |-> NONE, sent |-> 0, raised |-> "none"]

\* The accessory after its constructor.  currentState, targetState,
\* obstruction, batteryLevelValue, statusLowBatteryValue: the value last given
\* to updateValue of the characteristic ("unset", Absent: none yet).
NoAccessory(revision, hasBatteryLevel, batteryLowLevel) ==
  [revision |-> revision, hasBatteryLevel |-> hasBatteryLevel,
   batteryLowLevel |-> batteryLowLevel,
   currentStatus |-> UNKNOWN, desiredStatus |-> NONE,
   obstructionDetected |-> FALSE, batteryLevel |-> 100,
   statusLowBattery |-> FALSE,
   currentState |-> "unset", targetState |-> "unset", obstruction |-> "unset",
   batteryLevelValue |-> Absent, statusLowBatteryValue |-> "unset",
   last |-> NoHandler]

convertTargetStateValueToDesiredStatus(value) ==
  IF value = "OPEN" THEN DESIRED_OPEN
  ELSE IF value = "CLOSED" THEN DESIRED_CLOSED
  ELSE Absent   \* throws INVALID_VALUE_IN_REQUEST

convertStatusToCurrentStateValue(status) ==
  IF status = OPEN THEN "OPEN"
  ELSE IF status = OPENING THEN "OPENING"
  ELSE IF status = CLOSED THEN "CLOSED"
  ELSE IF status = CLOSING THEN "CLOSING"
  ELSE IF status \in {TIMEOUT_OPENING, TIMEOUT_CLOSING, UNKNOWN, NOT_CONFIGURED}
  THEN "STOPPED"
  ELSE "INVALID_VALUE_IN_REQUEST"

convertDesiredStatusToTargetStateValue(status) ==
  IF status = DESIRED_OPEN THEN "OPEN"
  ELSE IF status = DESIRED_CLOSED THEN "CLOSED"
  ELSE "INVALID_VALUE_IN_REQUEST"

DesiredAlwaysOpen(status) == DESIRED_OPEN
convertStatusToDesiredStatus(status) ==
  IF status \in {OPEN, OPENING, TIMEOUT_OPENING} THEN DESIRED_OPEN
  ELSE IF status \in {CLOSED, CLOSING, TIMEOUT_CLOSING} THEN DESIRED_CLOSED
  ELSE NONE

\* A boolean as updateValue is given it.
YesNo(b) == IF b THEN "true" ELSE "false"

\* set currentStatus(value)
setCurrentStatus(a, value) ==
  IF a.currentStatus = value THEN a
  ELSE [a EXCEPT !.currentStatus = value,
                 !.currentState = convertStatusToCurrentStateValue(value)]

\* set obstructionDetected(value)
setObstructionDetected(a, value) ==
  IF a.obstructionDetected = value THEN a
  ELSE [a EXCEPT !.obstructionDetected = value, !.obstruction = YesNo(value)]

\* set batteryLevel(value)
setBatteryLevel(a, value) ==
  LET batteryLevel == Min(100, Max(0, value))
      statusLowBattery ==
        batteryLevel <= Coalesce(a.batteryLowLevel, DEFAULT_STATUS_LOW_BATTERY_PERCENT)
  IN [a EXCEPT
        !.batteryLevelValue =
           IF a.batteryLevel # batteryLevel /\ a.hasBatteryLevel
           THEN batteryLevel ELSE @,
        !.batteryLevel = batteryLevel,
        !.statusLowBatteryValue =
           IF a.statusLowBattery # statusLowBattery /\ a.hasBatteryLevel
           THEN YesNo(a.statusLowBattery) ELSE @,
        !.statusLowBattery = statusLowBattery]

\* set desiredStatus(value): the field is assigned before the value for the
\* characteristic is computed, and that throws for NONE.
setDesiredStatus(a, value) ==
  IF a.desiredStatus = value THEN a
  ELSE LET v == convertDesiredStatusToTargetStateValue(value) IN
       IF v = "INVALID_VALUE_IN_REQUEST"
       THEN [a EXCEPT !.desiredStatus = value, !.last.raised = v]
       ELSE [a EXCEPT !.desiredStatus = value, !.targetState = v]

\* desiredStatus === this.desiredStatus: the revision of platformAccessory.ts
\* returns at once; the earlier one has no such test.
NeverAlreadySet(a, desiredStatus) == FALSE
alreadySet(a, desiredStatus) ==
  a.revision = "platformAccessory" /\ desiredStatus = a.desiredStatus

\* A call from outside.  hap: how the set handler of either accessory
\* revision ends when this call is the setDoorStatus it awaits.  Ghosts: fetched, the call sent a state read to the
\* backend; conc, the first getDoorStatus call for the same door that was
\* pending when this one was issued, with no live cache entry and no
\* setDoorStatus for the door pending (0: none); live, the cache.del of a
\* setDoorStatus removed a live entry; hit0, val0: the cache held a live entry
\* for the door when the getDoorStatus was issued, and its value.
NoCall == [kind |-> "none", door |-> 0, pc |-> "idle", res |-> NoRes,
           fetched |-> FALSE, conc |-> 0, live |-> FALSE, stale |-> FALSE,
           hit0 |-> FALSE, val0 |-> NoVal,
           hap |-> [a \in Accessories |-> "none"]]

InitService ==
  /\ cache = [d \in Doors |-> NoEntry]
  /\ token = FALSE
  /\ subs = [t \in Tokens |-> 0]
  /\ nextTok = 1
  /\ loops = [t \in Tokens |-> NoLoop]
  /\ calls = [c \in CallIds |-> NoCall]
  /\ lockq = <<>>
  /\ pubq = <<>>
  /\ mustMiss = [d \in Doors |-> FALSE]
  /\ lastDelivery = [door |-> 0, to |-> {}, nul |-> FALSE]
  /\ rq = NoRequest
  /\ allDoors = NoList

Init ==
  /\ InitService
  /\ cred = NoCred("oauth", Absent)
  /\ plat = NoPlatform("unset", NoAccount, TRUE)
  /\ policy = NoPolicy(config)
  /\ session = NoSession("oauth")
  /\ settings = NoSettings(FullConfig(Absent, Absent, Absent, Absent))
  /\ accessory = NoAccessory("platformAccessory", FALSE, Absent)

\* Either class, with or without a configured userInfoCacheTtl.
InitToken ==
  /\ InitService
  /\ cred \in {NoCred(a, c) : a \in Apis, c \in UserInfoCacheTtls}
  /\ plat = NoPlatform("unset", NoAccount, TRUE)
  /\ policy = NoPolicy(config)
  /\ session = NoSession("oauth")
  /\ settings = NoSettings(FullConfig(Absent, Absent, Absent, Absent))
  /\ accessory = NoAccessory("platformAccessory", FALSE, Absent)

\* Any account, any setting of showShared, the backend up or down.
InitDiscover ==
  /\ InitService
  /\ cred = NoCred("oauth", Absent)
  /\ plat \in {NoPlatform(sh, acc, up) :
                 sh \in {"unset", "false", "true"}, acc \in Accounts, up \in BOOLEAN}
  /\ policy = NoPolicy(config)
  /\ session = NoSession("oauth")
  /\ settings = NoSettings(FullConfig(Absent, Absent, Absent, Absent))
  /\ accessory = NoAccessory("platformAccessory", FALSE, Absent)

\* Any configuration of the two ttls.
InitPolicy ==
  /\ InitService
  /\ cred = NoCred("oauth", Absent)
  /\ plat = NoPlatform("unset", NoAccount, TRUE)
  /\ policy \in {NoPolicy(c) : c \in Configs}
  /\ session = NoSession("oauth")
  /\ settings = NoSettings(FullConfig(Absent, Absent, Absent, Absent))
  /\ accessory = NoAccessory("platformAccessory", FALSE, Absent)

\* Any of the three classes.
InitSession ==
  /\ InitService
  /\ cred = NoCred("oauth", Absent)
  /\ plat = NoPlatform("unset", NoAccount, TRUE)
  /\ policy = NoPolicy(config)
  /\ session \in {NoSession(v) : v \in Variants}
  /\ settings = NoSettings(FullConfig(Absent, Absent, Absent, Absent))
  /\ accessory = NoAccessory("platformAccessory", FALSE, Absent)

\* Any configuration of the four numeric options.
InitSettings ==
  /\ InitService
  /\ cred = NoCred("oauth", Absent)
  /\ plat = NoPlatform("unset", NoAccount, TRUE)
  /\ policy = NoPolicy(config)
  /\ session = NoSession("oauth")
  /\ settings \in {NoSettings(c) : c \in FullConfigs}
  /\ accessory = NoAccessory("platformAccessory", FALSE, Absent)

\* Either revision of the accessory, with or without a battery, with or
\* without a configured batteryLowLevel.
InitAccessory ==
  /\ InitService
  /\ cred = NoCred("oauth", Absent)
  /\ plat = NoPlatform("unset", NoAccount, TRUE)
  /\ policy = NoPolicy(config)
  /\ session = NoSession("oauth")
  /\ settings = NoSettings(FullConfig(Absent, Absent, Absent, Absent))
  /\ accessory \in {NoAccessory("platformAccessory", b, l) :
                 b \in BOOLEAN, l \in BatteryLowLevels}
            \cup {NoAccessory("part_002", FALSE, Absent)}

\* PubSub.countSubscriptions(doorStatusTopic(door))
countSubscriptions(s, d) == Cardinality({t \in Tokens : s[t] = d})

\* ------------------------------------------------ the service, as data
\* F applied to the value of x, which is computed once.
With(x, F(_)) == CHOOSE r \in {F(v) : v \in {x}} : TRUE

\* The part of the state that the continuations of one macrotask rewrite.
World ==
  [cache |-> cache, token |-> token, loops |-> loops, calls |-> calls,
   lockq |-> lockq, pubq |-> pubq, mustMiss |-> mustMiss,
   allDoors |-> allDoors]

Commit(next) ==
  \E W \in {next} :
    /\ cache' = W.cache
    /\ token' = W.token
    /\ loops' = W.loops
    /\ calls' = W.calls
    /\ lockq' = W.lockq
    /\ pubq' = W.pubq
    /\ mustMiss' = W.mustMiss
    /\ allDoors' = W.allDoors

CallRef(c) == [t |-> "call", id |-> c]
LoopRef(l) == [t |-> "loop", id |-> l]
Task(W, t) == IF t.t = "call" THEN W.calls[t.id] ELSE W.loops[t.id]
Put(W, t, r) ==
  IF t.t = "call" THEN [W EXCEPT !.calls[t.id] = r]
  ELSE [W EXCEPT !.loops[t.id] = r]
IsSet(W, t) == t.t = "call" /\ W.calls[t.id].kind = "set"
IsAll(W, t) == t.t = "call" /\ W.calls[t.id].kind = "all"
ListRes == [k |-> "list", v |-> NoVal, ok |-> TRUE]

\* PubSub.publish(topic, data): nothing is scheduled when the topic has no
\* subscriber at the call; otherwise the delivery runs in a later macrotask.
publish(W0, l, v) ==
  With(W0, LAMBDA W :
    IF countSubscriptions(subs, W.loops[l].door) > 0
    THEN [W EXCEPT !.pubq = Append(@, [door |-> W.loops[l].door, val |-> v, by |-> l])]
    ELSE W)

PollStopsOnError(W0, l, res) ==
  With(W0, LAMBDA W :
    IF res.k # "val" THEN [W EXCEPT !.loops[l] = NoLoop]
    ELSE [publish(W, l, res.v) EXCEPT !.loops[l].pc = "timer",
                                      !.loops[l].delay = pollInterval,
                                      !.loops[l].timers = @ + 1,
                                      !.loops[l].ticks = @ - 1,
                                      !.loops[l].last = "pub"])

\* The rest of poll() after `await this.getDoorStatus(door)`: publish the
\* value, or swallow the error; then setTimeout(poll, this.pollInterval).
pollAfterFetch(W0, l, res) ==
  With(W0, LAMBDA W :
    LET published == res.k = "val" /\ countSubscriptions(subs, W.loops[l].door) > 0
    IN [(IF res.k = "val" THEN publish(W, l, res.v) ELSE W) EXCEPT
          !.loops[l].pc = "timer",
          !.loops[l].delay = pollInterval,
          !.loops[l].timers = @ + 1,
          !.loops[l].ticks = @ - 1,
          !.loops[l].last = IF res.k # "val" THEN "fail"
                            ELSE IF published THEN "pub" ELSE "nopub"])

\* The promise of lock.acquire settles: the caller gets its result.
settle(W0, t, res) ==
  With(W0, LAMBDA W :
    IF t.t = "call"
    THEN [W EXCEPT !.calls[t.id].pc = "done", !.calls[t.id].res = res,
                   !.calls[t.id].hap =
                     IF W.calls[t.id].kind = "set"
                     THEN [a \in Accessories |-> setTargetDoorState(a, res)]
                     ELSE @]
    ELSE pollAfterFetch(W, t.id, res))

\* AsyncLock: the task leaves the lock.
NeverReleased(q, t) == q
release(q, t) == SelectSeq(q, LAMBDA x : x # t)

\* The function given to lock.acquire ends with `res`.
finish(W, t, res) == settle([W EXCEPT !.lockq = release(@, t)], t, res)

\* The HTTP request of the locked section goes out: the state read of
\* getDoorStatus, or the write command of setDoorStatus.
startHttp(W0, t) ==
  With(W0, LAMBDA W :
    IF t.t = "call"
    THEN [W EXCEPT !.calls[t.id].pc = "http",
                   !.calls[t.id].fetched = (W.calls[t.id].kind = "get")]
    ELSE [W EXCEPT !.loops[t.id].pc = "http"])

\* getOauthToken(): cache.wrap('getOauthToken', login): a cached token is
\* used at once, otherwise the login request goes out first.
getOauthToken(W0, t) ==
  With(W0, LAMBDA W :
    IF W.token THEN startHttp(W, t)
    ELSE Put(W, t, [Task(W, t) EXCEPT !.pc = "login"]))

\* cache.wrap(doorStatusCacheKey(door), fetch, {ttl}) up to its first
\* suspension: a live entry is returned, otherwise fetch is invoked.
wrapDoorStatus(W0, t) ==
  With(W0, LAMBDA W :
    LET d == Task(W, t).door
        W1 == [W EXCEPT !.mustMiss[d] = FALSE]
    IN IF W.cache[d].present
       THEN finish(W1, t, ValRes(W.cache[d].val))
       ELSE getOauthToken(W1, t))

\* cache.wrap('getAllDoors', fetch, {ttl}) up to its first suspension.
wrapAllDoors(W0, t) ==
  With(W0, LAMBDA W :
    IF W.allDoors.present THEN finish(W, t, ListRes) ELSE getOauthToken(W, t))

\* The function given to lock.acquire starts to run.
enter(W0, t) ==
  With(W0, LAMBDA W :
    IF IsSet(W, t) THEN getOauthToken(W, t)
    ELSE IF IsAll(W, t) THEN wrapAllDoors(W, t)
    ELSE wrapDoorStatus(W, t))

\* AsyncLock runs the first task of the queue; the tasks behind it wait.
RunnableNoLock(q) == {q[i] : i \in 1..Len(q)}
runnable(q) == IF q = <<>> THEN {} ELSE {Head(q)}

RECURSIVE drain(_)
drain(W0) ==
  With(W0, LAMBDA W :
    LET ready == {t \in runnable(W.lockq) : Task(W, t).pc = "queued"} IN
    IF ready = {} THEN W
    ELSE drain(enter(W, CHOOSE t \in ready : TRUE)))

\* this.lock.acquire(DOOR_STATUS_LOCK, fn)
acquire(W0, t) ==
  With(W0, LAMBDA W :
    drain(Put([W EXCEPT !.lockq = Append(@, t)], t, [Task(W, t) EXCEPT !.pc = "queued"])))

\* ------------------------------------------------------------ actions
\* if (PubSub.countSubscriptions(topic) === 1), after PubSub.subscribe
StartsLoopGe(s, d) == countSubscriptions(s, d) >= 1
startsLoop(s, d) == countSubscriptions(s, d) = 1

\* if (PubSub.countSubscriptions(topic) === 0), at the start of poll()
NeverStops(s, d) == FALSE
noSubscriptions(s, d) == countSubscriptions(s, d) = 0

\* subscribe(door, func): register with PubSub; the subscription that makes
\* the count 1 starts a poll loop with setTimeout(poll, 0).
subscribe(d) ==
  /\ nextTok <= MaxSubs
  /\ LET s1 == [subs EXCEPT ![nextTok] = d] IN
     /\ subs' = s1
     /\ loops' = IF startsLoop(s1, d)
                 THEN [loops EXCEPT ![nextTok] =
                         [NoLoop EXCEPT !.door = d, !.pc = "timer", !.delay = 0,
                                        !.timers = 1]]
                 ELSE loops
  /\ nextTok' = nextTok + 1
  /\ UNCHANGED <<cache, token, calls, lockq, pubq, mustMiss, lastDelivery, rq, allDoors, cred, plat,
                 policy, session, settings, accessory>>

\* unsubscribe(token): PubSub.unsubscribe(token)
unsubscribe(t) ==
  /\ subs[t] # 0
  /\ subs' = [subs EXCEPT ![t] = 0]
  /\ UNCHANGED <<cache, token, nextTok, loops, calls, lockq, pubq, mustMiss,
                 lastDelivery, rq, allDoors, cred, plat,
                 policy, session, settings, accessory>>

\* The timer has fired and poll() found subscribers: the tick goes on to
\* getDoorStatus.  No timer is pending until the tick sets the next one.
TimerRepeats(W, l) ==
  [W EXCEPT !.loops[l].last = "none", !.loops[l].ticks = @ + 1]
tickStarts(W, l) ==
  [W EXCEPT !.loops[l].last = "none", !.loops[l].timers = @ - 1,
            !.loops[l].ticks = @ + 1]

\* The poll timer of loop l fires.  A publication of the loop's last tick is
\* delivered first: its timer (0 ms) was set before this one (pollInterval).
poll(l) ==
  /\ loops[l].pc = "timer"
  /\ \A i \in 1..Len(pubq) : pubq[i].by # l
  /\ IF noSubscriptions(subs, loops[l].door)
     THEN Commit([World EXCEPT !.loops[l] = NoLoop])
     ELSE Commit(acquire(tickStarts(World, l), LoopRef(l)))
  /\ UNCHANGED <<subs, nextTok, lastDelivery, rq, cred, plat,
                 policy, session, settings, accessory>>

PendingGets(d) ==
  {b \in CallIds : calls[b].kind = "get" /\ calls[b].door = d /\ calls[b].pc # "done"}
PendingSets(d) ==
  {b \in CallIds : calls[b].kind = "set" /\ calls[b].door = d /\ calls[b].pc # "done"}
FirstOf(S) == IF S = {} THEN 0 ELSE CHOOSE b \in S : \A x \in S : b <= x

\* getDoorStatus(door), called from outside the poll loops.
getDoorStatus(c, d) ==
  /\ calls[c].kind = "none"
  /\ \A b \in 1..(c - 1) : calls[b].kind # "none"
  /\ Commit(acquire([World EXCEPT !.calls[c] =
                       [NoCall EXCEPT
                          !.kind = "get", !.door = d,
                          !.hit0 = cache[d].present, !.val0 = cache[d].val,
                          !.conc = IF cache[d].present \/ PendingSets(d) # {}
                                   THEN 0 ELSE FirstOf(PendingGets(d))]],
                    CallRef(c)))
  /\ UNCHANGED <<subs, nextTok, lastDelivery, rq, cred, plat,
                 policy, session, settings, accessory>>

\* setDoorStatus(door, desiredStatus)
setDoorStatus(c, d) ==
  /\ calls[c].kind = "none"
  /\ \A b \in 1..(c - 1) : calls[b].kind # "none"
  /\ Commit(acquire([World EXCEPT !.calls[c] =
                       [NoCall EXCEPT !.kind = "set", !.door = d]],
                    CallRef(c)))
  /\ UNCHANGED <<subs, nextTok, lastDelivery, rq, cred, plat,
                 policy, session, settings, accessory>>

InFlight(pc) ==
  {CallRef(c) : c \in {x \in CallIds : calls[x].pc = pc}}
    \cup {LoopRef(l) : l \in {x \in Tokens : loops[x].pc = pc}}

\* The catch of the login function: the error is logged and thrown again,
\* so cache.wrap stores no token.
CachesFailedLogin(W) == [W EXCEPT !.token = TRUE]
onLoginError(W) == W

\* The login request of getOauthToken() ends: the token is cached and the
\* request of the locked section goes out, or the error leaves the section.
loginResponds(t, ok) ==
  /\ t \in InFlight("login")
  /\ IF ok
     THEN Commit(startHttp([World EXCEPT !.token = TRUE], t))
     ELSE Commit(drain(finish(onLoginError(World), t, ErrRes)))
  /\ UNCHANGED <<subs, nextTok, lastDelivery, rq, cred, plat,
                 policy, session, settings, accessory>>

\* The catch of the fetch function: the error is logged and thrown again, so
\* cache.wrap stores nothing.
CachesFailure(W, d) ==
  [W EXCEPT !.cache[d] = Entry(NullInfo, StatusTtl(NullInfo), FALSE)]
onReadError(W, d) == W

\* The cache is made without isCacheableValue: every value but undefined is
\* stored, null too.
NullNotCacheable(v) == ~v.nul
isCacheableValue(v) == TRUE

\* The state read of getDoorStatus ends: cache.wrap stores the value with
\* the ttl computed from it and returns it; an error is cached nowhere.
readResponds(t, o) ==
  /\ t \in InFlight("http")
  /\ ~IsSet(World, t) /\ ~IsAll(World, t)
  /\ LET d == Task(World, t).door
         v == ReadValue(o)
     IN IF o = "fail"
        THEN Commit(drain(finish(onReadError(World, d), t, ErrRes)))
        ELSE Commit(drain(finish(
               [World EXCEPT !.cache[d] =
                  IF isCacheableValue(v)
                  THEN Entry(v, StatusTtl(v), Task(World, t).stale) ELSE @],
               t, ValRes(v))))
  /\ UNCHANGED <<subs, nextTok, lastDelivery, rq, cred, plat,
                 policy, session, settings, accessory>>

\* await this.cache.del(doorStatusCacheKey(door))
DelNothing(W, d) == [W EXCEPT !.mustMiss[d] = TRUE]
delDoorStatus(W, d) == [W EXCEPT !.cache[d] = NoEntry, !.mustMiss[d] = TRUE]

\* Ghost: the state reads for door d that are out while its command returns.
markStale(W, d) ==
  [W EXCEPT
     !.calls = [c \in CallIds |->
                  IF @[c].kind = "get" /\ @[c].door = d /\ @[c].pc = "http"
                  THEN [@[c] EXCEPT !.stale = TRUE] ELSE @[c]],
     !.loops = [l \in Tokens |->
                  IF @[l].door = d /\ @[l].pc = "http"
                  THEN [@[l] EXCEPT !.stale = TRUE] ELSE @[l]]]

\* The write command of setDoorStatus ends: on a response (every sub-command
\* ok, or not) the cache entry is deleted; an error is thrown before that.
writeResponds(t, o) ==
  /\ t \in InFlight("http")
  /\ IsSet(World, t)
  /\ LET d == Task(World, t).door
         W1 == [markStale(delDoorStatus(World, d), d) EXCEPT
                  !.calls[t.id].live = cache[d].present]
     IN IF o = "fail"
        THEN Commit(drain(finish(World, t, ErrRes)))
        ELSE Commit(drain(finish(W1, t, SetRes(o = "ok"))))
  /\ UNCHANGED <<subs, nextTok, lastDelivery, rq, cred, plat,
                 policy, session, settings, accessory>>

ReceiversOfNull(s, p) == {t \in Tokens : s[t] = p.door}
ReceiversAnyTopic(s, p) == IF p.val.nul THEN {} ELSE {t \in Tokens : s[t] # 0}
\* The subscriber function subscribe() hands to PubSub: a null is dropped.
receivers(s, p) == IF p.val.nul THEN {} ELSE {t \in Tokens : s[t] = p.door}

\* PubSub delivers the oldest publication to the subscribers of its topic.
deliver ==
  /\ pubq # <<>>
  /\ lastDelivery' = [door |-> Head(pubq).door,
                      to |-> receivers(subs, Head(pubq)),
                      nul |-> Head(pubq).val.nul]
  /\ pubq' = Tail(pubq)
  /\ UNCHANGED <<cache, token, subs, nextTok, loops, calls, lockq, mustMiss, rq, allDoors, cred, plat,
                 policy, session, settings, accessory>>

\* TimeStep seconds pass: cache entries age, and an entry whose time is up is
\* gone.
AgeLate(e) == IF e.present /\ e.left > 0 THEN [e EXCEPT !.left = @ - TimeStep] ELSE NoEntry
age(e) == IF e.present /\ e.left > TimeStep THEN [e EXCEPT !.left = @ - TimeStep] ELSE NoEntry

advance ==
  /\ \E d \in Doors : cache[d].present
  /\ cache' = [d \in Doors |-> age(cache[d])]
  /\ UNCHANGED <<token, subs, nextTok, loops, calls, lockq, pubq, mustMiss,
                 lastDelivery, rq, allDoors, cred, plat,
                 policy, session, settings, accessory>>

\* The ttl of the cached token runs out.
tokenExpires ==
  /\ token
  /\ token' = FALSE
  /\ UNCHANGED <<cache, subs, nextTok, loops, calls, lockq, pubq, mustMiss,
                 lastDelivery, rq, allDoors, cred, plat,
                 policy, session, settings, accessory>>

\* The poll loops: subscriptions come and go, the loops poll both doors.
PollOutcomes == {"closed", "closing", "null", "fail"}
Next ==
  \/ \E d \in Doors : subscribe(d)
  \/ \E t \in Tokens : unsubscribe(t)
  \/ \E l \in Tokens : poll(l)
  \/ \E t \in InFlight("login"), ok \in BOOLEAN : loginResponds(t, ok)
  \/ \E t \in InFlight("http"), o \in PollOutcomes : readResponds(t, o)
  \/ deliver
  \/ advance

Spec == Init /\ [][Next]_vars

\* The poll loops under the scheduling of the event loop: it runs every
\* timer that is due, every response that has arrived and every delivery
\* that is pending, and every HTTP request ends (axios is given a timeout).
LiveOutcomes == {"closed", "fail"}
NextLive ==
  \/ \E d \in Doors : subscribe(d)
  \/ \E t \in Tokens : unsubscribe(t)
  \/ \E l \in Tokens : poll(l)
  \/ \E t \in InFlight("login"), ok \in BOOLEAN : loginResponds(t, ok)
  \/ \E t \in InFlight("http"), o \in LiveOutcomes : readResponds(t, o)
  \/ deliver
  \/ advance

FairSpec ==
  /\ Init /\ [][NextLive]_vars
  /\ \A l \in Tokens : WF_vars(poll(l))
  /\ WF_vars(\E t \in InFlight("login"), ok \in BOOLEAN : loginResponds(t, ok))
  /\ WF_vars(\E t \in InFlight("http"), o \in LiveOutcomes : readResponds(t, o))
  /\ WF_vars(deliver)

\* getAllDoors() of the oauth class.
getAllDoors(c) ==
  /\ calls[c].kind = "none"
  /\ \A b \in 1..(c - 1) : calls[b].kind # "none"
  /\ Commit(acquire([World EXCEPT !.calls[c] = [NoCall EXCEPT !.kind = "all"]],
                    CallRef(c)))
  /\ UNCHANGED <<subs, nextTok, lastDelivery, rq, cred, plat,
                 policy, session, settings, accessory>>

\* The configuration request of getAllDoors ends: cache.wrap stores the list
\* with the ttl userInfoCacheTtl; the catch logs an error and throws it again.
configurationResponds(t, ok) ==
  /\ t \in InFlight("http")
  /\ IsAll(World, t)
  /\ IF ok
     THEN Commit(drain(finish(
            [World EXCEPT !.allDoors =
               [NoList EXCEPT !.present = TRUE,
                              !.ttl = userInfoCacheTtl(Absent),
                              !.left = userInfoCacheTtl(Absent)]],
            t, ListRes)))
     ELSE Commit(drain(finish(World, t, ErrRes)))
  /\ UNCHANGED <<subs, nextTok, lastDelivery, rq, cred, plat,
                 policy, session, settings, accessory>>

\* The calls from outside: getDoorStatus and setDoorStatus for either door.
NextCalls ==
  \/ \E c \in CallIds, d \in CallDoors : getDoorStatus(c, d)
  \/ \E c \in CallIds, d \in CallDoors : setDoorStatus(c, d)
  \/ \E t \in InFlight("login"), ok \in BOOLEAN : loginResponds(t, ok)
  \/ \E t \in InFlight("http"), o \in ReadOutcomes : readResponds(t, o)
  \/ \E t \in InFlight("http"), o \in {"ok", "partial", "fail"} : writeResponds(t, o)
  \/ advance
  \/ tokenExpires

SpecCalls == Init /\ [][NextCalls]_vars

\* Every method that takes the lock, called from outside, under the
\* scheduling of the event loop; every HTTP request ends.
NextLock ==
  \/ \E c \in CallIds : getAllDoors(c)
  \/ \E c \in CallIds, d \in CallDoors : getDoorStatus(c, d)
  \/ \E c \in CallIds, d \in CallDoors : setDoorStatus(c, d)
  \/ \E t \in InFlight("login"), ok \in BOOLEAN : loginResponds(t, ok)
  \/ \E t \in InFlight("http"), ok \in BOOLEAN : configurationResponds(t, ok)
  \/ \E t \in InFlight("http"), o \in LiveOutcomes : readResponds(t, o)
  \/ \E t \in InFlight("http"), o \in {"ok", "fail"} : writeResponds(t, o)
  \/ tokenExpires

SpecLock == Init /\ [][NextLock]_vars

FairLock ==
  /\ SpecLock
  /\ WF_vars(\E t \in InFlight("login"), ok \in BOOLEAN : loginResponds(t, ok))
  /\ WF_vars(\E t \in InFlight("http"), ok \in BOOLEAN : configurationResponds(t, ok))
  /\ WF_vars(\E t \in InFlight("http"), o \in LiveOutcomes : readResponds(t, o))
  /\ WF_vars(\E t \in InFlight("http"), o \in {"ok", "fail"} : writeResponds(t, o))

\* ------------------------------------------ the list of all the doors
\* The fetch of getAllDoors ends with the list `doors` (door -> status, or
\* Absent): cache.wrap stores it under 'getAllDoors' with the ttl computed
\* from it.  perDoor is a ghost: the ttl getDoorStatus of the per-door
\* variants computes for the same status.
allDoorsResponds(doors) ==
  /\ ~allDoors.present
  /\ allDoors' = [present |-> TRUE, val |-> doors, ttl |-> AllDoorsTtl(doors),
                  left |-> AllDoorsTtl(doors),
                  perDoor |-> [d \in Doors |-> StatusTtl(InfoOf(doors[d]))],
                  mustMiss |-> FALSE]
  /\ UNCHANGED <<cache, token, subs, nextTok, loops, calls, lockq, pubq,
                 mustMiss, lastDelivery, rq, cred, plat,
                 policy, session, settings, accessory>>

\* TimeStep seconds pass for the entry under 'getAllDoors'.
allDoorsAdvance ==
  /\ allDoors.present
  /\ allDoors' = IF allDoors.left > TimeStep
                 THEN [allDoors EXCEPT !.left = @ - TimeStep]
                 ELSE [NoList EXCEPT !.mustMiss = allDoors.mustMiss]
  /\ UNCHANGED <<cache, token, subs, nextTok, loops, calls, lockq, pubq,
                 mustMiss, lastDelivery, rq, cred, plat,
                 policy, session, settings, accessory>>

\* getAllDoors (a poll, or a call from outside) finds the list in the cache
\* and returns it.
allDoorsCached ==
  /\ allDoors.present
  /\ allDoors' = [allDoors EXCEPT !.mustMiss = FALSE]
  /\ UNCHANGED <<cache, token, subs, nextTok, loops, calls, lockq, pubq,
                 mustMiss, lastDelivery, rq, cred, plat,
                 policy, session, settings, accessory>>

\* setDoorStatus(door, desiredStatus) of the Cognito variant completes: the
\* command was accepted, then cache.del(doorStatusCacheKey(door)).
allDoorsSetDoorStatus(d) ==
  /\ allDoors' = [cacheDel(allDoors, doorStatusCacheKey(d)) EXCEPT
                   !.mustMiss = TRUE]
  /\ UNCHANGED <<cache, token, subs, nextTok, loops, calls, lockq, pubq,
                 mustMiss, lastDelivery, rq, cred, plat,
                 policy, session, settings, accessory>>

NextAll ==
  \/ \E doors \in [Doors -> StatusValues \cup {Absent}] : allDoorsResponds(doors)
  \/ allDoorsCached
  \/ \E d \in Doors : allDoorsSetDoorStatus(d)
  \/ allDoorsAdvance

SpecAll == Init /\ [][NextAll]_vars

\* ------------------------------------------------------ the ttl policy
\* cache.wrap applies the ttl function to a fetched state of status st.
applyTtl(st) ==
  /\ LET ttl == ttlPolicy(policy.config, st) IN
     policy' = [policy EXCEPT
                  !.status = st, !.ttl = ttl,
                  !.transitioning = IF st \in {CLOSING, OPENING} THEN ttl ELSE @,
                  !.stationary = IF st \in {CLOSING, OPENING} THEN @ ELSE ttl]
  /\ UNCHANGED <<cache, token, subs, nextTok, loops, calls, lockq, pubq,
                 mustMiss, lastDelivery, rq, allDoors, cred, plat, session,
                 settings, accessory>>

NextPolicy == \E st \in StatusValues \cup {Absent} : applyTtl(st)

SpecPolicy == InitPolicy /\ [][NextPolicy]_vars

\* ------------------------------------------------------ the credential
\* The cached credential is live while its age is below its ttl.
credLive == cred.present /\ cred.age < cred.ttl

\* One call of getOauthToken / getAccessToken: cache.wrap returns the live
\* credential, or performs the login; the login answers with a credential
\* that declares the lifetime `answer`, or fails (Absent: nothing is stored).
getAccessToken(answer) ==
  /\ cred' =
       IF credLive
       THEN [cred EXCEPT !.served = [k |-> "hit", age |-> cred.age,
                                     expiresIn |-> cred.expiresIn]]
       ELSE IF answer = Absent
       THEN [cred EXCEPT !.present = FALSE,
                         !.served = [k |-> "error", age |-> cred.age,
                                     expiresIn |-> cred.expiresIn]]
       ELSE [cred EXCEPT !.present = TRUE, !.expiresIn = answer,
                         !.ttl = TokenTtl(cred.api, cred.userInfoCacheTtl, answer),
                         !.age = 0,
                         !.served = [k |-> "login", age |-> cred.age,
                                     expiresIn |-> cred.expiresIn]]
  /\ UNCHANGED <<cache, token, subs, nextTok, loops, calls, lockq, pubq,
                 mustMiss, lastDelivery, rq, allDoors, plat,
                 policy, session, settings, accessory>>

\* TokenStep seconds pass.
tokenAdvance ==
  /\ cred.expiresIn > 0
  /\ cred.age < TokenHorizon
  /\ cred' = [cred EXCEPT !.age = @ + TokenStep]
  /\ UNCHANGED <<cache, token, subs, nextTok, loops, calls, lockq, pubq,
                 mustMiss, lastDelivery, rq, allDoors, plat,
                 policy, session, settings, accessory>>

NextToken ==
  \/ \E answer \in ExpiresIns \cup {Absent} : getAccessToken(answer)
  \/ tokenAdvance

SpecToken == InitToken /\ [][NextToken]_vars

\* ---------------------------------------------------------- discovery
\* Homebridge restores accessory d from disk before it finished launching.
configureAccessory(d, o) ==
  /\ plat.pc = "starting"
  /\ d \notin plat.accessories
  /\ plat' = [plat EXCEPT !.accessories = @ \cup {d},
                          !.registered = @ \cup {d},
                          !.ownership[d] = o]
  /\ UNCHANGED <<cache, token, subs, nextTok, loops, calls, lockq, pubq,
                 mustMiss, lastDelivery, rq, allDoors, cred,
                 policy, session, settings, accessory>>

\* DID_FINISH_LAUNCHING: the listener calls discoverDevices(), which awaits
\* getAllDoors().
didFinishLaunching ==
  /\ plat.pc = "starting"
  /\ plat' = [plat EXCEPT !.pc = "discovering"]
  /\ UNCHANGED <<cache, token, subs, nextTok, loops, calls, lockq, pubq,
                 mustMiss, lastDelivery, rq, allDoors, cred,
                 policy, session, settings, accessory>>

\* getAllDoors() ends.  It returned the doors: every one is registered, or
\* updated when it was restored, and the restored accessories that were not
\* listed are unregistered.  It raised: discoverDevices rejects in the
\* listener, and nothing calls it again.
discoverDevices ==
  /\ plat.pc = "discovering"
  /\ plat' =
       IF plat.up
       THEN LET doors == listedDoors(plat.showShared, plat.account)
            IN [plat EXCEPT
                  !.pc = "done",
                  !.registered = doors,
                  !.ownership = [d \in Doors |->
                                   IF d \in doors THEN plat.account[d] ELSE "none"]]
       ELSE [plat EXCEPT !.pc = "failed"]
  /\ UNCHANGED <<cache, token, subs, nextTok, loops, calls, lockq, pubq,
                 mustMiss, lastDelivery, rq, allDoors, cred,
                 policy, session, settings, accessory>>

\* The backend goes down, or comes back.
backend(up) ==
  /\ plat.up # up
  /\ plat' = [plat EXCEPT !.up = up]
  /\ UNCHANGED <<cache, token, subs, nextTok, loops, calls, lockq, pubq,
                 mustMiss, lastDelivery, rq, allDoors, cred,
                 policy, session, settings, accessory>>

NextDiscover ==
  \/ \E d \in Doors, o \in Ownerships : configureAccessory(d, o)
  \/ didFinishLaunching
  \/ discoverDevices
  \/ \E up \in BOOLEAN : backend(up)

SpecDiscover == InitDiscover /\ [][NextDiscover]_vars

\* The event loop runs the listener and the continuation of discoverDevices.
FairDiscover ==
  /\ SpecDiscover
  /\ WF_vars(didFinishLaunching)
  /\ WF_vars(discoverDevices)

\* -------------------------------------------------- request(): steps
\* request(method, url, config) up to its first axios.request.
request(method, r, hd) ==
  /\ rq.pc = "idle"
  /\ rq' = [NoRequest EXCEPT !.pc = "request", !.retry = retryOf(method, r),
                             !.method = method, !.given = r,
                             !.handlers = hd, !.tries = 1, !.attempts = 1]
  /\ UNCHANGED <<cache, token, subs, nextTok, loops, calls, lockq, pubq,
                 mustMiss, lastDelivery, allDoors, cred, plat,
                 policy, session, settings, accessory>>

\* The attempt in flight ends with answer a: the body of the loop from the
\* return or the catch to the setTimeout of the retry delay.  sleeps is a
\* ghost: the delay of every sleep, and the header that was parsed for it.
responds(a) ==
  /\ rq.pc = "request"
  /\ LET retry == rq.retry
         ended == [rq EXCEPT !.last = a]
         retryDelayMs == IF a.kind = "status" THEN parseRetryAfter(a.ra) ELSE Absent
         tries == rq.tries + 1
     IN rq' =
          IF a.kind = "ok"
          THEN [ended EXCEPT !.pc = "returned", !.result = "response"]
          ELSE IF a.kind = "thrown"
          THEN [ended EXCEPT !.pc = "raised"]
          ELSE IF a.kind = "status" /\ expectedErrorStatus(rq.handlers, a.status)
          THEN [ended EXCEPT
                  !.pc = IF rq.handlers.throws THEN "raised" ELSE "returned",
                  !.result = IF rq.handlers.throws THEN "none" ELSE "handler",
                  !.by = handlerFor(rq.handlers, a.status)]
          ELSE IF \/ isTimeout(a)
                  \/ exhausted(rq.tries, retry.maxTries)
                  \/ a.kind = "status" /\ notRetryable(retry, a.status)
          THEN [ended EXCEPT !.pc = "raised"]
          ELSE IF overMaxBackoff(retryDelayMs, retry)
          THEN [ended EXCEPT !.pc = "raised"]
          ELSE [ended EXCEPT
                  !.pc = "sleep",
                  !.tries = tries,
                  !.sleeps = Append(@, [ms |-> IF retryDelayMs = Absent
                                               THEN backoff(retry, tries)
                                               ELSE retryDelayMs,
                                        ra |-> retryDelayMs])]
  /\ UNCHANGED <<cache, token, subs, nextTok, loops, calls, lockq, pubq,
                 mustMiss, lastDelivery, allDoors, cred, plat,
                 policy, session, settings, accessory>>

\* The retry delay is over: the loop starts again with axios.request.
wake ==
  /\ rq.pc = "sleep"
  /\ rq' = [rq EXCEPT !.pc = "request", !.attempts = @ + 1]
  /\ UNCHANGED <<cache, token, subs, nextTok, loops, calls, lockq, pubq,
                 mustMiss, lastDelivery, allDoors, cred, plat,
                 policy, session, settings, accessory>>

\* One call of request() with any configuration, against any backend.
NextReq ==
  \/ \E m \in Methods, r \in RetryConfigs, hd \in Handlers : request(m, r, hd)
  \/ \E a \in Answers : responds(a)
  \/ wake

SpecReq == Init /\ [][NextReq]_vars

\* ------------------------------------------------ the session: steps
\* this.session.get / post / request: the first attempt of a call starts.
sessionRequest(call) ==
  /\ session.pc = "idle"
  /\ session' = [session EXCEPT !.call = call, !.pc = "request",
                                !.method = sessionMethod(session.variant, call)]
  /\ UNCHANGED <<cache, token, subs, nextTok, loops, calls, lockq, pubq,
                 mustMiss, lastDelivery, rq, allDoors, cred, plat, policy,
                 settings, accessory>>

\* The attempt under way ends with e. axios-retry makes the request again,
\* without delay, when retryCondition holds and fewer than `retries` retries
\* were made; otherwise the caller gets the response or the error.
sessionResponds(e) ==
  /\ session.pc = "request"
  /\ LET ended == [session EXCEPT !.log = Append(@, e)] IN
     session' =
       IF e.kind = "ok" THEN [ended EXCEPT !.pc = "returned"]
       ELSE IF /\ retryCondition(session.variant, e, session.method)
               /\ session.retryCount < retries
       THEN [ended EXCEPT !.retryCount = @ + 1]
       ELSE [ended EXCEPT !.pc = "raised"]
  /\ UNCHANGED <<cache, token, subs, nextTok, loops, calls, lockq, pubq,
                 mustMiss, lastDelivery, rq, allDoors, cred, plat, policy,
                 settings, accessory>>

NextSession ==
  \/ \E call \in SessionCalls : sessionRequest(call)
  \/ \E e \in SessionAnswers : sessionResponds(e)

SpecSession == InitSession /\ [][NextSession]_vars

\* ------------------------------------------------------- the settings
\* The four getters are read.
getSettings ==
  /\ ~settings.read
  /\ settings' = [settings EXCEPT
                    !.read = TRUE,
                    !.pollInterval = pollIntervalMs(settings.config),
                    !.stationary = stationaryCacheTtl(settings.config),
                    !.transitioning = transitioningCacheTtl(settings.config),
                    !.userInfo = userInfoCacheTtl(settings.config.userInfoCacheTtl)]
  /\ UNCHANGED <<cache, token, subs, nextTok, loops, calls, lockq, pubq,
                 mustMiss, lastDelivery, rq, allDoors, cred, plat, policy,
                 session, accessory>>

NextSettings == getSettings

SpecSettings == InitSettings /\ [][NextSettings]_vars

\* ------------------------------------------------------ the accessory
\* The callback the accessory subscribed with gets info.
statusUpdate(info) ==
  /\ LET started == [accessory EXCEPT !.last = [NoHandler EXCEPT
                                    !.op = "update",
                                    !.desiredStatus = info.desiredStatus,
                                    !.fault = info.fault]]
         a1 == setCurrentStatus(started, info.status)
         a2 == setObstructionDetected(a1,
                 info.fault \/ info.status \in {TIMEOUT_CLOSING, TIMEOUT_OPENING})
         battery == /\ accessory.revision = "platformAccessory"
                    /\ accessory.hasBatteryLevel /\ info.batteryPercent # Absent
         a3 == IF battery
               THEN [setBatteryLevel(a2, info.batteryPercent) EXCEPT !.last.battery = TRUE]
               ELSE a2
     IN accessory' = setDesiredStatus(a3,
                 IF info.desiredStatus = NONE \/ a3.obstructionDetected
                 THEN convertStatusToDesiredStatus(a3.currentStatus)
                 ELSE info.desiredStatus)
  /\ UNCHANGED <<cache, token, subs, nextTok, loops, calls, lockq, pubq,
                 mustMiss, lastDelivery, rq, allDoors, cred, plat, policy,
                 session, settings>>

\* HomeKit sets TargetDoorState to value; the setDoorStatus the handler
\* awaits, if it makes one, ends with res.
onSetTargetDoorState(value, res) ==
  /\ LET desiredStatus == convertTargetStateValueToDesiredStatus(value)
         handler == [NoHandler EXCEPT !.op = "set", !.target = desiredStatus,
                                      !.was = accessory.desiredStatus]
     IN accessory' =
          IF desiredStatus = Absent
          THEN [accessory EXCEPT !.last = [handler EXCEPT !.raised = "INVALID_VALUE_IN_REQUEST"]]
          ELSE IF alreadySet(accessory, desiredStatus)
          THEN [accessory EXCEPT !.last = handler]
          ELSE [accessory EXCEPT !.last =
                  [handler EXCEPT
                     !.sent = 1,
                     !.raised = LET h == setTargetDoorState(accessory.revision, res)
                                IN IF h = "completed" THEN "none" ELSE h]]
  /\ UNCHANGED <<cache, token, subs, nextTok, loops, calls, lockq, pubq,
                 mustMiss, lastDelivery, rq, allDoors, cred, plat, policy,
                 session, settings>>

NextAccessory ==
  \/ \E info \in Updates : statusUpdate(info)
  \/ \E value \in TargetValues, res \in {SetRes(TRUE), ErrRes} :
       onSetTargetDoorState(value, res)

SpecAccessory == InitAccessory /\ [][NextAccessory]_vars

\* ------------------------------------------------- properties: the lock
IsGet(c) == calls[c].kind = "get"
Pos(q, t) == CHOOSE i \in 1..Len(q) : q[i] = t
InQueue(q, t) == \E i \in 1..Len(q) : q[i] = t

\* Call b waits directly behind call a: nothing but getDoorStatus calls for
\* the same door stands between them in the queue of the lock.
DirectlyBehind(a, b) ==
  /\ InQueue(lockq, CallRef(a)) /\ InQueue(lockq, CallRef(b))
  /\ Pos(lockq, CallRef(a)) < Pos(lockq, CallRef(b))
  /\ \A i \in (Pos(lockq, CallRef(a)) + 1)..(Pos(lockq, CallRef(b)) - 1) :
       /\ lockq[i].t = "call"
       /\ IsGet(lockq[i].id)
       /\ calls[lockq[i].id].door = calls[a].door

ReadsInFlight(d) ==
  {t \in InFlight("http") : ~IsSet(World, t) /\ Task(World, t).door = d}

\* C1 as stated: a getDoorStatus call issued while another one for the same
\* door was pending, with no live cache entry, sends no state read of its own
\* and returns what the first of them returned.
C1_OneReadForAll ==
  \A b \in CallIds :
    (IsGet(b) /\ calls[b].conc # 0 /\ calls[b].pc = "done")
      => /\ ~calls[b].fetched
         /\ calls[b].res = calls[calls[b].conc].res

\* C1, amended: (1) at most one state read per door is in flight at any time;
\* (2) when the read of the call that holds the lock succeeds, every
\* getDoorStatus call for the same door that waits directly behind it returns
\* in the same step, with the same result and without a read of its own;
\* (3) when that read fails, the call directly behind it is not given the
\* failure but starts a read of its own.
C1_SingleFlight ==
  /\ [](\A d \in Doors : Cardinality(ReadsInFlight(d)) <= 1)
  /\ [][\A a, b \in CallIds :
          (/\ IsGet(a) /\ IsGet(b) /\ calls[b].door = calls[a].door
           /\ calls[a].pc = "http" /\ calls[b].pc = "queued"
           /\ DirectlyBehind(a, b)
           /\ calls'[a].pc = "done")
          => IF calls'[a].res.k = "val"
             THEN /\ calls'[b].pc = "done"
                  /\ calls'[b].res = calls'[a].res
                  /\ ~calls'[b].fetched
             ELSE Pos(lockq, CallRef(b)) = Pos(lockq, CallRef(a)) + 1
                    => calls'[b].pc \in {"login", "http"}]_vars

\* Three concurrent calls for one door were served by the one read of the
\* first of them.
C1_Witness ==
  \E a \in CallIds :
    /\ IsGet(a) /\ calls[a].pc = "done" /\ calls[a].fetched
    /\ calls[a].res.k = "val"
    /\ \A b \in CallIds \ {a} :
         /\ IsGet(b) /\ calls[b].conc = a /\ calls[b].pc = "done"
         /\ ~calls[b].fetched /\ calls[b].res = calls[a].res

C3_MissAfterSet ==
  /\ [](\A d \in Doors : mustMiss[d] => ~cache[d].present)
  /\ [][\A s, g \in CallIds :
          (/\ calls[s].kind = "set" /\ calls[s].pc = "http"
           /\ calls'[s].pc = "done" /\ calls'[s].res.k = "set"
           /\ IsGet(g) /\ calls[g].door = calls[s].door
           /\ Len(lockq) >= 2 /\ lockq[2] = CallRef(g))
          => calls'[g].pc \in {"login", "http"}]_vars

\* A partly successful setDoorStatus removed a live entry, and the next
\* getDoorStatus for the door has its state read out.
C3_Witness ==
  \E s, g \in CallIds :
    /\ calls[s].kind = "set" /\ calls[s].pc = "done"
    /\ calls[s].res.k = "set" /\ ~calls[s].res.ok /\ calls[s].live
    /\ g > s /\ IsGet(g) /\ calls[g].door = calls[s].door
    /\ calls[g].pc = "http" /\ calls[g].conc = 0

\* ------------------------------------------- properties: the poll loops
Fetching(l) == loops[l].pc \in {"login", "http"}
FetchingNext(l) == loops'[l].pc \in {"login", "http"}

\* C4 as stated: a poll loop starts no fetch while its door has no
\* subscription.
C4_NoFetchAfterLastUnsubscribe ==
  [][\A l \in Tokens :
       (loops[l].pc # "off" /\ countSubscriptions(subs, loops[l].door) = 0
        /\ ~Fetching(l))
       => ~FetchingNext(l)]_vars

\* C4, amended: a tick whose timer fires while the door has no subscription
\* fetches nothing and sets no timer, so the loop ends; the only fetch a loop
\* starts while its door has no subscription is that of a tick that was
\* already waiting for the lock.
C4_TickChecksSubscribers ==
  [][\A l \in Tokens :
       (loops[l].pc # "off" /\ countSubscriptions(subs, loops[l].door) = 0)
       => /\ (loops[l].pc = "timer" /\ loops'[l] # loops[l]) => loops'[l].pc = "off"
          /\ (~Fetching(l) /\ FetchingNext(l)) => loops[l].pc = "queued"]_vars

\* A tick waits for the lock and its door has lost its last subscription.
C4_Witness ==
  \E l \in Tokens :
    /\ loops[l].pc = "queued"
    /\ countSubscriptions(subs, loops[l].door) = 0

\* C5: a subscribe starts a poll loop exactly when it makes the count of the
\* door 1, with a timer of delay 0; no other step starts a loop.
C5_LoopOnFirstSubscribe ==
  [][/\ nextTok' = nextTok + 1 =>
          LET d == subs'[nextTok] IN
          IF countSubscriptions(subs, d) = 0
          THEN loops' = [loops EXCEPT ![nextTok] =
                           [door |-> d, pc |-> "timer", delay |-> 0,
                            last |-> "none", stale |-> FALSE,
                            timers |-> 1, ticks |-> 0]]
          ELSE loops' = loops
     /\ \A l \in Tokens :
          (loops[l].pc = "off" /\ loops'[l].pc # "off") => nextTok' = nextTok + 1]_vars

\* Two subscriptions for one door, and the one loop of the first of them with
\* its first timer (delay 0) pending.
C5_Witness ==
  \E d \in Doors :
    /\ countSubscriptions(subs, d) = 2
    /\ Cardinality({l \in Tokens : loops[l].pc # "off"}) = 1
    /\ \E l \in Tokens : loops[l].door = d /\ loops[l].pc = "timer" /\ loops[l].delay = 0

\* The fetch of loop l ends in this step with an error: the loop leaves the
\* locked section and no value was stored for its door.
TickFails(l) ==
  /\ Fetching(l) /\ ~FetchingNext(l)
  /\ ~cache'[loops[l].door].present

Tick(d) == \E l \in Tokens : loops[l].door = d /\ poll(l)

\* C6: a tick whose fetch fails publishes nothing, keeps its loop alive and
\* sets the next timer with delay pollInterval; and a door that keeps at
\* least one subscription has ticks for ever.
C6_LoopSurvivesFailure ==
  /\ [][\A l \in Tokens :
          TickFails(l)
          => /\ loops'[l].pc = "timer"
             /\ loops'[l].delay = pollInterval
             /\ loops'[l].door = loops[l].door
             /\ \A i \in 1..Len(pubq') : pubq'[i].by # l]_vars
  /\ \A d \in Doors :
       <>[](countSubscriptions(subs, d) >= 1) => []<><<Tick(d)>>_vars

\* The fetch of a tick failed and the next timer of the loop is pending.
C6_Witness ==
  \E l \in Tokens :
    /\ loops[l].last = "fail" /\ loops[l].pc = "timer"
    /\ loops[l].delay = pollInterval
    /\ countSubscriptions(subs, loops[l].door) >= 1

\* C7: a published state goes to exactly the subscriptions that the door of
\* the tick has when PubSub delivers it, and to none of another door; a fetch
\* that ends well when the door has no subscription publishes nothing, raises
\* nothing and sets the next timer.
C7_DeliveryByDoor ==
  /\ [][(pubq # <<>> /\ pubq' = Tail(pubq))
          => /\ lastDelivery'.door = Head(pubq).door
             /\ lastDelivery'.to =
                  IF Head(pubq).val.nul THEN {}
                  ELSE {t \in Tokens : subs[t] = Head(pubq).door}]_vars
  /\ [][\A l \in Tokens :
          (/\ loops[l].pc = "http" /\ ~FetchingNext(l)
           /\ cache'[loops[l].door].present
           /\ countSubscriptions(subs, loops[l].door) = 0)
          => /\ loops'[l].pc = "timer"
             /\ loops'[l].delay = pollInterval
             /\ loops'[l].last = "nopub"
             /\ \A i \in 1..Len(pubq') : pubq'[i].by # l]_vars

\* A state of one door was delivered to its subscription while the other
\* door had one too, and a fetch for a door without subscription ended well.
C7_Witness ==
  /\ lastDelivery.to # {}
  /\ \E t \in Tokens : subs[t] # 0 /\ subs[t] # lastDelivery.door
                       /\ t \notin lastDelivery.to
  /\ \E l \in Tokens : loops[l].last = "nopub" /\ loops[l].pc = "timer"

\* ---------------------------------------------- properties: request()
\* A failure that request() is to retry: a response with a status of
\* retryOnStatus that no handler expects and whose Retry-After is not over
\* maxBackoffMs, or a network error that is no timeout.
RetryableFailure(a) ==
  \/ /\ a.kind = "status"
     /\ ~expectedErrorStatus(rq.handlers, a.status)
     /\ a.status \in rq.retry.retryOnStatus
     /\ parseRetryAfter(a.ra) <= rq.retry.maxBackoffMs
  \/ /\ a.kind = "network"
     /\ ~(a.code = "ETIMEOUT" \/ (a.code = "ECONNABORTED" /\ a.timeoutMsg))

\* C8: request() makes at most maxTries attempts and sleeps only when an
\* attempt is left; an attempt that succeeds ends the call with its response;
\* and a retryable failure ends the call only when no attempt is left, so
\* 503, 503, 200 with maxTries 3 returns the third response.
C8_BoundedAttempts ==
  rq.pc # "idle" =>
    /\ rq.attempts >= 1 /\ rq.attempts <= rq.retry.maxTries
    /\ rq.tries = IF rq.pc = "sleep" THEN rq.attempts + 1 ELSE rq.attempts
    /\ rq.pc = "sleep" => rq.attempts < rq.retry.maxTries
    /\ rq.last.kind = "ok" <=> (rq.pc = "returned" /\ rq.result = "response")
    /\ (RetryableFailure(rq.last) /\ rq.attempts < rq.retry.maxTries)
         => rq.pc \in {"sleep", "request"}
    /\ Len(rq.sleeps) = IF rq.pc = "sleep" THEN rq.attempts ELSE rq.attempts - 1

\* 503, 503, 200 with maxTries 3: the third response is returned.
C8_Witness ==
  /\ rq.pc = "returned" /\ rq.result = "response"
  /\ rq.retry.maxTries = 3 /\ rq.attempts = 3
  /\ Len(rq.sleeps) = 2
  /\ rq.last.kind = "ok"

\* C9 as stated: the sleep after failed attempt k lasts
\* min(maxBackoffMs, backoffFactorMs * 2^(k-1)), or the Retry-After of the
\* failed response when that is valid and not over maxBackoffMs.
C9_BackoffDelay ==
  \A k \in 1..Len(rq.sleeps) :
    rq.sleeps[k].ms =
      IF rq.sleeps[k].ra # Absent /\ rq.sleeps[k].ra <= rq.retry.maxBackoffMs
      THEN rq.sleeps[k].ra
      ELSE Min(rq.retry.maxBackoffMs, rq.retry.backoffFactorMs * 2^(k - 1))

Expected(a) ==
  /\ a.kind = "status"
  /\ \/ a.status \in rq.handlers.onErrorStatus
     \/ rq.handlers.onClientError /\ a.status >= 400 /\ a.status < 500
     \/ rq.handlers.onServerError /\ a.status >= 500

ReadFails(c) ==
  \/ readResponds(CallRef(c), "fail")
  \/ IsGet(c) /\ loginResponds(CallRef(c), FALSE)

\* C13: when the request of a getDoorStatus fails, the caller gets the
\* error, the cache is left as it was, with no entry for the door, and a
\* getDoorStatus for the door that waits right behind it goes to the backend
\* itself.
C13_FailureNotCached ==
  [][\A c \in CallIds :
       ReadFails(c)
       => /\ calls'[c].pc = "done" /\ calls'[c].res.k = "err"
          /\ cache' = cache
          /\ ~cache'[calls[c].door].present
          /\ \A b \in CallIds :
               (/\ IsGet(b) /\ calls[b].door = calls[c].door
                /\ Len(lockq) >= 2 /\ lockq[2] = CallRef(b))
               => calls'[b].pc \in {"login", "http"}]_vars

\* The state read of the first getDoorStatus failed, and a later one for
\* the same door, issued with nothing pending, has its own read out.
C13_Witness ==
  /\ IsGet(1) /\ calls[1].pc = "done" /\ calls[1].fetched
  /\ calls[1].res.k = "err"
  /\ IsGet(2) /\ calls[2].door = calls[1].door
  /\ calls[2].conc = 0 /\ ~calls[2].hit0
  /\ calls[2].pc = "http" /\ calls[2].fetched

Transitioning(st) == st = OPENING \/ st = CLOSING

\* C14 as stated: the entry that holds the state of a door lives for the
\* transitioning ttl when the status of that door is OPENING or CLOSING, and
\* for the stationary ttl for every other status, unknown and absent too.
C14_TtlByStatus ==
  allDoors.present =>
    \A d \in Doors :
      /\ allDoors.perDoor[d] = IF Transitioning(allDoors.val[d])
                               THEN doorStatusTransitioningCacheTtl
                               ELSE doorStatusStationaryCacheTtl
      /\ allDoors.ttl = allDoors.perDoor[d]

\* C14, amended: that is the ttl of the per-door entry of getDoorStatus; the
\* entry of getAllDoors, which holds all the doors, lives for the
\* transitioning ttl when the status of at least one door of the list is
\* OPENING or CLOSING and for the stationary ttl otherwise.
C14_TtlByFetchedValue ==
  allDoors.present =>
    /\ \A d \in Doors :
         allDoors.perDoor[d] = IF Transitioning(allDoors.val[d])
                               THEN doorStatusTransitioningCacheTtl
                               ELSE doorStatusStationaryCacheTtl
    /\ allDoors.ttl = IF \E d \in Doors : Transitioning(allDoors.val[d])
                      THEN doorStatusTransitioningCacheTtl
                      ELSE doorStatusStationaryCacheTtl
    /\ allDoors.left > 0 /\ allDoors.left <= allDoors.ttl

\* A list with a closing door and a door without status: the per-door ttls
\* differ and the list lives for the transitioning ttl.
C14_Witness ==
  /\ allDoors.present
  /\ allDoors.val[1] = CLOSING /\ allDoors.val[2] = Absent
  /\ allDoors.perDoor[1] = doorStatusTransitioningCacheTtl
  /\ allDoors.perDoor[2] = doorStatusStationaryCacheTtl
  /\ allDoors.ttl = doorStatusTransitioningCacheTtl

\* C15: a call for the credential made less than the declared lifetime minus
\* the margin after the credential was acquired is served from the cache, and
\* a call made at or after that age is served by a new login (or fails with
\* it), so that no credential is served at or after its declared expiry.
C15_ReusedUntilMargin ==
  cred.served.expiresIn > 0 =>
    /\ cred.served.age < cred.served.expiresIn - TokenMargin
         => cred.served.k = "hit"
    /\ cred.served.age >= cred.served.expiresIn - TokenMargin
         => cred.served.k \in {"login", "error"}

\* The same for the Cognito variant alone.
C15_CognitoReusedUntilMargin == cred.api = "cognito" => C15_ReusedUntilMargin

\* The oauth variant serves a credential from the cache after its declared
\* expiry.
C15_ServedAfterExpiry ==
  /\ cred.api = "oauth"
  /\ cred.served.k = "hit"
  /\ cred.served.age >= cred.served.expiresIn

SetFailed(c) ==
  calls[c].kind = "set" /\ calls[c].pc = "done" /\ calls[c].res.k = "err"

\* C16: when the setDoorStatus awaited by the set handler of an accessory
\* fails, the handler raises HAP SERVICE_COMMUNICATION_FAILURE; it neither
\* completes nor raises anything else.
C16_CommunicationFailure ==
  \A c \in CallIds : SetFailed(c) =>
    \A a \in Accessories : calls[c].hap[a] = "SERVICE_COMMUNICATION_FAILURE"

\* The same for the revision of platformAccessory.ts alone, and for both
\* revisions that the handler does not complete.
C16_CurrentAccessoryFails ==
  \A c \in CallIds : SetFailed(c) =>
    /\ calls[c].hap["platformAccessory"] = "SERVICE_COMMUNICATION_FAILURE"
    /\ \A a \in Accessories : calls[c].hap[a] # "completed"

\* A failed setDoorStatus that the earlier revision answers with the error of
\* the service.
C16_RawError ==
  \E c \in CallIds : SetFailed(c) /\ calls[c].hap["part_002"] = "error"

\* C17: a discovery that fails at startup is attempted again, so that once
\* the backend has recovered for good the doors are discovered and
\* registered.
C17_DiscoveryRetried == <>[](plat.up) => <>(plat.pc = "done")

\* Discovery failed at startup and the backend is back.
C17_FailedAndRecovered == plat.pc = "failed" /\ plat.up

\* C18: unless showShared is true, no door shared with the account is an
\* accessory once discoverDevices has returned.
C18_SharedHidden ==
  (plat.pc = "done" /\ plat.showShared # "true") =>
    \A d \in plat.registered : plat.ownership[d] # "shared"

\* With showShared true the shared doors of the account are accessories.
C18_SharedShown ==
  (plat.pc = "done" /\ plat.showShared = "true") =>
    \A d \in Doors : plat.account[d] = "shared" =>
      d \in plat.registered /\ plat.ownership[d] = "shared"

\* showShared is false and a shared door is an accessory after discovery.
C18_SharedRegistered ==
  /\ plat.pc = "done" /\ plat.showShared = "false"
  /\ \E d \in plat.registered : plat.ownership[d] = "shared"

\* C19: request() has 3 attempts for GET and 1 for every other method when
\* the caller gives no maxTries, the caller's value when that is an integer
\* of at least 1, and 1 when it is not an integer or is below 1; it makes no
\* attempt beyond that budget and gives up on a retryable failure only when
\* the budget is used up.  Without a retryOnStatus of the caller the
\* retryable statuses are 408, 429, 500, 502, 503 and 504.
C19_Budget ==
  IF rq.given.maxTries.t = "absent"
  THEN IF rq.method \in {"get", "GET"} THEN 3 ELSE 1
  ELSE IF rq.given.maxTries.t = "number" /\ rq.given.maxTries.halves % 2 = 0
          /\ rq.given.maxTries.halves >= 2
       THEN rq.given.maxTries.halves \div 2
       ELSE 1

C19_AttemptBudget ==
  rq.pc # "idle" =>
    /\ rq.retry.maxTries = C19_Budget
    /\ rq.attempts <= C19_Budget
    /\ (rq.pc = "raised" /\ RetryableFailure(rq.last)) => rq.attempts = C19_Budget
    /\ rq.given.retryOnStatus = {Absent}
         => rq.retry.retryOnStatus = {408, 429, 500, 502, 503, 504}

\* A GET without maxTries gives up on the third 503; a POST without maxTries
\* on the first; a call with maxTries 2.5 on the first.
C19_Witness ==
  /\ rq.pc = "raised" /\ rq.last.kind = "status" /\ rq.last.status = 503
  /\ rq.method = "GET" /\ rq.given.maxTries.t = "absent"
  /\ rq.given.retryOnStatus = {Absent} /\ rq.attempts = 3

\* ------------------------------------------- properties: the poll tick
TickEnded(l) == loops[l].ticks = 1 /\ loops'[l].ticks = 0

C20_Ticks ==
  \A l \in Tokens :
    /\ loops[l].ticks + loops[l].timers <= 1
    /\ loops[l].ticks = 1 <=> loops[l].pc \notin {"off", "timer"}
    /\ loops[l].timers = 1 <=> loops[l].pc = "timer"
    /\ (loops[l].pc = "timer" /\ loops[l].last # "none")
         => loops[l].delay = pollInterval

\* C20: a poll loop has at most one tick in progress and no timer pending
\* while a tick is in progress; the timer of the next tick is set in the step
\* that ends the fetch (and publish) of the tick, by success or by failure,
\* with the delay pollInterval.
C20_OneTickAtATime ==
  /\ []C20_Ticks
  /\ [][\A l \in Tokens :
          (loops'[l].timers > loops[l].timers /\ loops[l].pc # "off") =>
            /\ TickEnded(l)
            /\ loops'[l].last \in {"pub", "nopub", "fail"}
            /\ loops'[l].delay = pollInterval]_vars

\* Two loops for the same door, one waiting for its next tick after a failed
\* fetch, the other with its tick in progress.
C20_Witness ==
  \E l, m \in Tokens :
    /\ l # m /\ loops[l].door = loops[m].door
    /\ loops[l].pc = "timer" /\ loops[l].last = "fail" /\ loops[l].timers = 1
    /\ loops[m].ticks = 1

\* ------------------------------------------ properties: the idle state
\* No subscriber, no pending timer and no tick in flight for door d.
Idle(d) ==
  /\ countSubscriptions(subs, d) = 0
  /\ \A l \in Tokens : loops[l].door # d

\* C21: the tick whose timer fires while its door has no subscriber fetches
\* nothing and sets no timer; a door whose count stays 0 is idle from some
\* point on; and only a subscribe for the door ends its idle state.
C21_EventuallyIdle ==
  /\ [][\A l \in Tokens :
          (/\ loops[l].pc = "timer" /\ loops'[l] # loops[l]
           /\ countSubscriptions(subs, loops[l].door) = 0)
          => /\ loops'[l] = NoLoop
             /\ lockq' = lockq /\ cache' = cache /\ pubq' = pubq]_vars
  /\ \A d \in Doors :
       <>[](countSubscriptions(subs, d) = 0) => <>[]Idle(d)
  /\ [][\A d \in Doors :
          (Idle(d) /\ ~Idle(d)')
          => nextTok' = nextTok + 1 /\ subs'[nextTok] = d]_vars

\* A door that had a subscriber, to whom a value was delivered, is idle
\* again.
C21_Witness ==
  \E d \in Doors :
    /\ Idle(d)
    /\ lastDelivery.door = d /\ lastDelivery.to # {}

\* ------------------------------------------ properties: across doors
\* C22: a getDoorStatus or setDoorStatus call never waits for the lock while
\* the request in flight (login, state read or command) belongs to a call
\* for a different door.
C22_DoorsIndependent ==
  \A c \in CallIds :
    calls[c].pc = "queued" =>
      \A t \in InFlight("login") \cup InFlight("http") :
        Task(World, t).door = calls[c].door

\* A call for one door waits for the lock while the state read of a call for
\* the other door is in flight.
C22_WaitsForOtherDoor ==
  \E a, b \in CallIds :
    /\ calls[a].door # calls[b].door
    /\ IsGet(a) /\ calls[a].pc = "http"
    /\ calls[b].pc = "queued"

\* ------------------------------------ properties: setDoorStatus fails
\* C23: when the write command of a setDoorStatus fails, the call raises and
\* the cache holds no entry for its door when it has returned.
C23_DeletedOnFailure ==
  [][\A s \in CallIds :
       (/\ calls[s].kind = "set" /\ calls[s].pc = "http"
        /\ calls'[s].pc = "done" /\ calls'[s].res.k = "err")
       => ~cache'[calls[s].door].present]_vars

\* A setDoorStatus has raised and the entry of its door is still live.
C23_EntrySurvives ==
  \E s \in CallIds :
    /\ SetFailed(s)
    /\ cache[calls[s].door].present
    /\ \A g \in CallIds : IsGet(g) /\ calls[g].door = calls[s].door => g < s

\* ------------------------------------ properties: the list after a set
\* C24: from the completion of a setDoorStatus to the next getAllDoors the
\* cache holds no list, so that getAllDoors misses the cache and refetches.
C24_ListInvalidated == allDoors.mustMiss => ~allDoors.present

\* A setDoorStatus for an opening door has completed and the list that says
\* so is still live.
C24_StaleList ==
  /\ allDoors.mustMiss /\ allDoors.present
  /\ \E d \in Doors : allDoors.val[d] = OPENING

\* ------------------------------------------- properties: the ttl policy
\* C25 as stated: for every configuration the ttl policy gives an OPENING or
\* CLOSING state a ttl strictly below the ttl it gives a stationary state.
C25_TransitioningShorter ==
  (policy.transitioning > 0 /\ policy.stationary > 0)
    => policy.transitioning < policy.stationary

ConfiguredStationary == policy.config.doorStatusStationaryCacheTtl
ConfiguredTransitioning == policy.config.doorStatusTransitioningCacheTtl

\* C25, amended: the transitioning ttl is the configured value (5 when none
\* is given) brought into 1..30, the stationary ttl the configured value (15
\* when none is given) brought into 5..60; the first is strictly below the
\* second for the default configuration and whenever the configured values
\* are in their ranges and so ordered, and it is not below it when the
\* configured transitioning value is in 5..30 and the configured stationary
\* value is not above it.
C25_ShorterWhenSoConfigured ==
  LET t == IF ConfiguredTransitioning = Absent THEN 5 ELSE ConfiguredTransitioning
      s == IF ConfiguredStationary = Absent THEN 15 ELSE ConfiguredStationary
  IN /\ policy.transitioning > 0 =>
          /\ policy.transitioning >= 1 /\ policy.transitioning <= 30
          /\ (t >= 1 /\ t <= 30) => policy.transitioning = t
     /\ policy.stationary > 0 =>
          /\ policy.stationary >= 5 /\ policy.stationary <= 60
          /\ (s >= 5 /\ s <= 60) => policy.stationary = s
     /\ (policy.transitioning > 0 /\ policy.stationary > 0) =>
          /\ (t >= 1 /\ t <= 30 /\ s >= 5 /\ s <= 60 /\ t < s)
               => policy.transitioning < policy.stationary
          /\ (t >= 5 /\ t <= 30 /\ s <= t)
               => policy.transitioning >= policy.stationary
     /\ policy.status # Absent =>
          policy.ttl = IF policy.status \in {OPENING, CLOSING}
                       THEN policy.transitioning ELSE policy.stationary

\* Configured with transitioning 30 and stationary 5, the policy has given a
\* closing state 30 s and a closed state 5 s.
C25_Witness ==
  /\ ConfiguredTransitioning = 30 /\ ConfiguredStationary = 5
  /\ policy.transitioning = 30 /\ policy.stationary = 5

\* ------------------------------------------ properties: the null state
\* C26: when the state read of a getDoorStatus yields no name, the call
\* returns null and the null is stored for the door with the stationary ttl;
\* a getDoorStatus that finds the stored null returns null in the same step,
\* with no request.
C26_NullIsCached ==
  /\ [][\A c \in CallIds :
          readResponds(CallRef(c), "null")
          => /\ calls'[c].pc = "done" /\ calls'[c].res = ValRes(NullInfo)
             /\ cache'[calls[c].door].present
             /\ cache'[calls[c].door].val = NullInfo
             /\ cache'[calls[c].door].left = doorStatusStationaryCacheTtl]_vars
  /\ [][\A c \in CallIds :
          (/\ calls[c].kind = "none" /\ IsGet(c)' /\ lockq = <<>>
           /\ cache[calls'[c].door].present /\ cache[calls'[c].door].val.nul)
          => /\ calls'[c].pc = "done" /\ calls'[c].res = ValRes(NullInfo)
             /\ ~calls'[c].fetched
             /\ cache' = cache]_vars

\* The first getDoorStatus read no name; the second, for the same door, got
\* the null from the cache.
C26_Witness ==
  /\ IsGet(1) /\ calls[1].pc = "done" /\ calls[1].fetched
  /\ calls[1].res = ValRes(NullInfo)
  /\ IsGet(2) /\ calls[2].door = calls[1].door /\ calls[2].pc = "done"
  /\ calls[2].hit0 /\ calls[2].val0.nul /\ ~calls[2].fetched
  /\ calls[2].res = ValRes(NullInfo)

\* ------------------------------------------- properties: a failed login
\* The call that waits right behind call c needs a token: it is a
\* setDoorStatus, or a getDoorStatus with no live entry for its door.
NeedsTokenBehind(c, b) ==
  /\ Len(lockq) >= 2 /\ lockq[1] = CallRef(c) /\ lockq[2] = CallRef(b)
  /\ calls[b].kind = "set" \/ ~cache[calls[b].door].present

\* C27: when the login of a call fails, the call ends with the error, no
\* token and no door state is cached, and the next call that needs a token
\* sends a login of its own.
C27_LoginFailurePropagates ==
  /\ [][\A c \in CallIds :
          (calls[c].pc = "login" /\ loginResponds(CallRef(c), FALSE))
          => /\ calls'[c].pc = "done" /\ calls'[c].res = ErrRes
             /\ ~calls'[c].fetched
             /\ ~token' /\ cache' = cache
             /\ \A b \in CallIds :
                  NeedsTokenBehind(c, b) => calls'[b].pc = "login"]_vars
  /\ [](\A c \in CallIds : calls[c].pc = "login" => ~token)
  /\ [][\A c \in CallIds :
          (calls[c].kind = "none" /\ calls'[c].kind # "none" /\ lockq = <<>>
           /\ ~token
           /\ (calls'[c].kind = "set" \/ ~cache[calls'[c].door].present))
          => calls'[c].pc = "login"]_vars

\* The login of the first call failed; the second call, a setDoorStatus
\* issued afterwards, has its own login out.
C27_Witness ==
  /\ calls[1].pc = "done" /\ calls[1].res = ErrRes /\ ~calls[1].fetched
  /\ IsGet(1)
  /\ calls[2].kind = "set" /\ calls[2].pc = "login"
  /\ ~token

\* ------------------------------------ properties: request() gives up
\* The attempt in flight ends in this step.
AttemptEnds == rq.pc = "request" /\ rq'.pc # "request"

\* The Retry-After of answer a in milliseconds (-1: none that is valid).
RetryAfterMs(a) ==
  IF a.ra.form = "secs" THEN (IF a.ra.n < 0 THEN 0 ELSE a.ra.n * 1000)
  ELSE IF a.ra.form = "date" THEN (IF a.ra.n < 0 THEN 0 ELSE a.ra.n)
  ELSE -1

\* C28: an attempt that ends with a status no handler expects and that is
\* not in retryOnStatus, or that is in retryOnStatus when the attempt is the
\* last of the budget, raises the error in that step: no sleep, no further
\* attempt, and the call is over.
C28_RaisedAtOnce ==
  /\ [][(/\ AttemptEnds
         /\ rq'.last.kind = "status" /\ ~Expected(rq'.last)
         /\ \/ rq'.last.status \notin rq.retry.retryOnStatus
            \/ rq.attempts = rq.retry.maxTries)
        => /\ rq'.pc = "raised"
           /\ rq'.sleeps = rq.sleeps /\ rq'.attempts = rq.attempts]_vars
  /\ [][rq.pc = "raised" => rq' = rq]_vars

\* A GET with three attempts is over after its first: a 404, with the
\* default retryOnStatus.
C28_Witness ==
  /\ rq.pc = "raised" /\ rq.last.kind = "status" /\ rq.last.status = 404
  /\ rq.retry.maxTries = 3 /\ rq.attempts = 1 /\ rq.sleeps = <<>>
  /\ 404 \notin rq.retry.retryOnStatus /\ 503 \in rq.retry.retryOnStatus
  /\ ~Expected(rq.last)

\* C29: an attempt that ends with a retryable status and a Retry-After above
\* maxBackoffMs raises the error in that step: no sleep of that length, no
\* exponential backoff, no further attempt.
C29_RetryAfterOverMax ==
  [][(/\ AttemptEnds
      /\ rq'.last.kind = "status" /\ ~Expected(rq'.last)
      /\ rq'.last.status \in rq.retry.retryOnStatus
      /\ RetryAfterMs(rq'.last) > rq.retry.maxBackoffMs)
     => /\ rq'.pc = "raised"
        /\ rq'.sleeps = rq.sleeps /\ rq'.attempts = rq.attempts]_vars

\* The first of three attempts got a 503 with Retry-After: 20 and the
\* default maxBackoffMs of 10 s: the call is over.
C29_Witness ==
  /\ rq.pc = "raised" /\ rq.last.kind = "status" /\ rq.last.status = 503
  /\ rq.last.ra = [form |-> "secs", n |-> 20]
  /\ rq.retry.maxBackoffMs = 10000 /\ 503 \in rq.retry.retryOnStatus
  /\ rq.retry.maxTries = 3 /\ rq.attempts = 1 /\ rq.sleeps = <<>>
  /\ ~Expected(rq.last)

\* ------------------------------------------ properties: the session
\* Attempt i of the call ended in a transport timeout.
TimedOut(i) == session.log[i].kind = "none" /\ session.log[i].code = "ECONNABORTED"

\* C30: an attempt of a login, state read or command that ended in a
\* transport timeout is the last attempt of its call, and the call is
\* raised.
C30_TimeoutNotRetried ==
  \A i \in 1..Len(session.log) :
    TimedOut(i) => i = Len(session.log) /\ session.pc = "raised"

\* The oauth class made a state read four times, each attempt timed out.
C30_TimeoutRetried ==
  /\ session.variant = "oauth" /\ session.call = "read" /\ session.pc = "raised"
  /\ Len(session.log) = retries + 1
  /\ \A i \in 1..Len(session.log) : TimedOut(i)

\* In the exosite class, which gives no retryCondition, a timeout does end
\* the call after one attempt.
C30_ExositeTimeoutEnds ==
  session.variant = "exosite" => C30_TimeoutNotRetried

\* ----------------------------------------- properties: the settings
\* The setting an option has when it is not given.
DefaultsApply ==
  LET c == settings.config IN
  /\ c.doorStatusPollInterval = Absent => settings.pollInterval = 15000
  /\ c.doorStatusStationaryCacheTtl = Absent => settings.stationary = 15
  /\ c.doorStatusTransitioningCacheTtl = Absent => settings.transitioning = 5
  /\ c.userInfoCacheTtl = Absent => settings.userInfo = 3600

\* C31: whatever is configured, the poll interval is in [5000, 60000] ms,
\* the stationary ttl in [5, 60] s, the transitioning ttl in [1, 30] s and
\* the user data ttl in [300, 86400] s, and an option that is not given has
\* its default: 15000, 15, 5, 3600.
C31_SettingsClamped ==
  settings.read =>
    /\ settings.pollInterval >= 5000 /\ settings.pollInterval <= 60000
    /\ settings.stationary >= 5 /\ settings.stationary <= 60
    /\ settings.transitioning >= 1 /\ settings.transitioning <= 30
    /\ settings.userInfo >= 300 /\ settings.userInfo <= 86400
    /\ DefaultsApply

\* Every option was configured outside its range: two below, two above.
C31_Witness ==
  /\ settings.read
  /\ settings.config = FullConfig(61, 0, 60001, 299)
  /\ settings.stationary = 60 /\ settings.transitioning = 1
  /\ settings.pollInterval = 60000 /\ settings.userInfo = 300

\* ----------------------------------------- properties: the accessory
\* The desired status that goes with a door status.
DesiredOf(status) ==
  CASE status \in {1, 2, 3} -> 1
    [] status \in {4, 5, 6} -> 0
    [] OTHER -> 99

\* C32: after a status update the obstruction flag of the accessory is
\* "fault, or the status is TIMEOUT_OPENING or TIMEOUT_CLOSING", and its
\* desired status is the reported one, unless that is NONE or an obstruction
\* is detected: then it is the one that goes with the current status.
C32_UpdateSetsObstructionAndDesired ==
  accessory.last.op = "update" =>
    /\ accessory.obstructionDetected =
         (accessory.last.fault \/ accessory.currentStatus \in {3, 6})
    /\ accessory.desiredStatus =
         IF accessory.last.desiredStatus = 99 \/ accessory.obstructionDetected
         THEN DesiredOf(accessory.currentStatus)
         ELSE accessory.last.desiredStatus

\* The update reported CLOSING without fault and the desired status OPEN,
\* then TIMEOUT_CLOSING: the desired status is derived, CLOSED.
C32_Witness ==
  /\ accessory.last.op = "update" /\ accessory.last.desiredStatus = 1
  /\ ~accessory.last.fault /\ accessory.currentStatus = 6
  /\ accessory.obstructionDetected /\ accessory.desiredStatus = 0
  /\ accessory.targetState = "CLOSED"

\* ------------------------------------- properties: one loop for a door
\* The poll loops of door d: those with a timer pending or a tick in progress.
LoopsOf(d) == {l \in Tokens : loops[l].pc # "off" /\ loops[l].door = d}

\* C33: whatever subscribe and unsubscribe calls were made, a door has at
\* most one poll loop.
C33_OneLoopPerDoor == \A d \in Doors : Cardinality(LoopsOf(d)) <= 1

\* A door with one subscription and two poll loops, both past their first
\* tick: the loop of a subscription that is gone kept going when the door was
\* subscribed to again before its next tick.
C33_TwoLoops ==
  \E d \in Doors :
    /\ countSubscriptions(subs, d) = 1
    /\ Cardinality(LoopsOf(d)) = 2
    /\ \A l \in LoopsOf(d) : loops[l].last # "none"

\* ------------------------------------------ properties: the lock is live
\* The tasks in the queue of the lock, the holder first.
InLock(t) == \E i \in 1..Len(lockq) : lockq[i] = t

\* Call c is over with an error.
Failed(c) == calls[c].pc = "done" /\ calls[c].res.k = "err"

\* C34: no task is in the queue of the lock twice, a call that is over
\* (with an error too) is not in it, only the first task of the queue is in
\* its locked section, and a call that waits for the lock gets it and ends.
C34_LockIsLive ==
  /\ [](\A i, j \in 1..Len(lockq) : lockq[i] = lockq[j] => i = j)
  /\ [](\A c \in CallIds :
          /\ calls[c].pc = "done" => ~InLock(CallRef(c))
          /\ calls[c].pc \in {"login", "http"} => lockq[1] = CallRef(c))
  /\ \A c \in CallIds :
       /\ (calls[c].pc = "queued") ~> (calls[c].pc # "queued")
       /\ (calls[c].kind # "none") ~> (calls[c].pc = "done")

\* A command failed, and the getAllDoors call that waited behind it has the
\* lock and its request out.
C34_Witness ==
  \E c, b \in CallIds :
    /\ calls[c].kind = "set" /\ Failed(c)
    /\ calls[b].kind = "all" /\ calls[b].pc = "http" /\ lockq[1] = CallRef(b)
    /\ Len(lockq) = 2

\* ------------------------------ properties: the accessory, an update
\* The value the CurrentDoorState characteristic has for a door status, and
\* the one TargetDoorState has for a desired status ("none": it has none).
CurrentStateOf(status) ==
  CASE status = 1 -> "OPEN" [] status = 2 -> "OPENING"
    [] status = 4 -> "CLOSED" [] status = 5 -> "CLOSING"
    [] OTHER -> "STOPPED"
TargetStateOf(desired) ==
  CASE desired = 1 -> "OPEN" [] desired = 0 -> "CLOSED" [] OTHER -> "none"

\* C35: the update handler of an accessory never raises, and after it the
\* current status, the desired status and the obstruction flag of the
\* accessory are the values last pushed to their characteristics.
C35_UpdateInSync ==
  accessory.last.op = "update" =>
    /\ accessory.last.raised = "none"
    /\ accessory.currentState \in {"unset", CurrentStateOf(accessory.currentStatus)}
    /\ accessory.targetState \in {"unset", TargetStateOf(accessory.desiredStatus)}
    /\ accessory.obstruction \in {"unset", YesNo(accessory.obstructionDetected)}

\* An update handler raised INVALID_VALUE_IN_REQUEST: the desired status of
\* the accessory is NONE now and the characteristic still says OPEN.
C35_UpdateRaised ==
  /\ accessory.last.op = "update"
  /\ accessory.last.raised = "INVALID_VALUE_IN_REQUEST"
  /\ accessory.desiredStatus = 99 /\ accessory.targetState = "OPEN"
  /\ accessory.currentStatus = 0

\* Apart from the desired status NONE, the fields and the characteristics
\* agree after every update.
C35_InSyncButNone ==
  accessory.last.op = "update" =>
    /\ accessory.last.raised # "none" => accessory.desiredStatus = 99
    /\ accessory.currentState \in {"unset", CurrentStateOf(accessory.currentStatus)}
    /\ accessory.desiredStatus # 99 =>
         accessory.targetState = TargetStateOf(accessory.desiredStatus)
    /\ accessory.obstruction \in {"unset", YesNo(accessory.obstructionDetected)}

\* ------------------------------ properties: the accessory, the battery
\* The threshold at or below which the battery is low.
Threshold == IF accessory.batteryLowLevel = -1 THEN 15 ELSE accessory.batteryLowLevel

\* C36: for an accessory with a battery, after an update that set the
\* battery level the value last pushed to StatusLowBattery is the low-battery
\* flag of the accessory, and the flag says that the level, clamped to
\* [0, 100], is at or below the threshold.
C36_LowBatteryInSync ==
  (accessory.hasBatteryLevel /\ accessory.last.op = "update" /\ accessory.last.battery)
    => /\ accessory.batteryLevel >= 0 /\ accessory.batteryLevel <= 100
       /\ accessory.statusLowBattery <=> (accessory.batteryLevel <= Threshold)
       /\ accessory.statusLowBatteryValue \in {"unset", YesNo(accessory.statusLowBattery)}

\* The battery went to 15 percent with the default threshold: the flag is
\* set and StatusLowBattery was given "no".
C36_StalePush ==
  /\ accessory.hasBatteryLevel /\ accessory.last.op = "update" /\ accessory.last.battery
  /\ accessory.batteryLowLevel = -1 /\ accessory.batteryLevel = 15
  /\ accessory.statusLowBattery /\ accessory.statusLowBatteryValue = "false"

\* The flag itself is right after every battery update, and the value pushed
\* is never the flag.
C36_FlagRightPushWrong ==
  (accessory.hasBatteryLevel /\ accessory.last.op = "update" /\ accessory.last.battery)
    => /\ accessory.batteryLevel >= 0 /\ accessory.batteryLevel <= 100
       /\ accessory.statusLowBattery <=> (accessory.batteryLevel <= Threshold)
       /\ accessory.statusLowBatteryValue \in
            {"unset", YesNo(~accessory.statusLowBattery)}

\* ------------------------------ properties: the accessory, a set request
\* The set handler of the accessory of platformAccessory.ts ran in this step
\* for a target that is OPEN or CLOSED.
SetHandlerRan ==
  /\ accessory.revision = "platformAccessory"
  /\ accessory'.last.op = "set" /\ accessory'.last.target \in {0, 1}
  /\ accessory'.last.was = accessory.desiredStatus

\* C39: the set handler makes no call of setDoorStatus when the target is
\* the desired status of the accessory, and one call otherwise; in both cases
\* the fields of the accessory and its characteristics stay as they are.
C39_SetHandlerFrame ==
  [][SetHandlerRan =>
       /\ accessory'.last.sent =
            IF accessory'.last.target = accessory.desiredStatus THEN 0 ELSE 1
       /\ accessory'.last.target = accessory.desiredStatus
            => accessory'.last.raised = "none"
       /\ accessory' = [accessory EXCEPT !.last = accessory'.last]]_vars

\* The accessory wants the door OPEN after an update; a request for OPEN was
\* answered without a command.
C39_Witness ==
  /\ accessory.revision = "platformAccessory"
  /\ accessory.last.op = "set" /\ accessory.last.target = 1
  /\ accessory.desiredStatus = 1 /\ accessory.last.was = 1
  /\ accessory.last.sent = 0 /\ accessory.last.raised = "none"
  /\ accessory.currentStatus = 2

\* ------------------------------ properties: request(), network errors
\* The answer is an error without a response that request() does not take
\* for a timeout.
NetworkFailure(a) ==
  /\ a.kind = "network"
  /\ ~(a.code = "ETIMEOUT" \/ (a.code = "ECONNABORTED" /\ a.timeoutMsg))

\* C37: an attempt that ends without a response and not in a timeout is
\* followed by a sleep of exponential backoff and another attempt while the
\* budget maxTries allows one, and raises the error only at the last attempt.
C37_NetworkErrorRetried ==
  [][(AttemptEnds /\ NetworkFailure(rq'.last)) =>
       IF rq.attempts < rq.retry.maxTries
       THEN /\ rq'.pc = "sleep"
            /\ rq'.sleeps =
                 Append(rq.sleeps,
                        [ms |-> Min(rq.retry.maxBackoffMs,
                                    rq.retry.backoffFactorMs * 2^rq.attempts),
                         ra |-> -1])
       ELSE rq'.pc = "raised" /\ rq'.sleeps = rq.sleeps]_vars

\* Three attempts of a GET ended with a reset connection: two sleeps of
\* 200 ms and 400 ms, then the error.
C37_Witness ==
  /\ rq.pc = "raised" /\ rq.last.kind = "network" /\ rq.last.code = "ECONNRESET"
  /\ rq.retry.maxTries = 3 /\ rq.attempts = 3
  /\ rq.retry.maxBackoffMs = 10000
  /\ Len(rq.sleeps) = 2 /\ rq.sleeps[1].ms = 200 /\ rq.sleeps[2].ms = 400

\* C40: every delay request() sleeps is at least 0 and at most maxBackoffMs.
C40_DelayInRange ==
  \A k \in 1..Len(rq.sleeps) :
    rq.sleeps[k].ms >= 0 /\ rq.sleeps[k].ms <= rq.retry.maxBackoffMs

\* Two sleeps: a Retry-After of -5 seconds gave 0 ms, and the backoff of
\* 400 ms was cut to the maxBackoffMs of 300.
C40_Witness ==
  /\ Len(rq.sleeps) = 2 /\ rq.retry.maxBackoffMs = 300
  /\ rq.sleeps[1].ms = 0 /\ rq.sleeps[1].ra = 0
  /\ rq.sleeps[2].ms = 300 /\ rq.sleeps[2].ra = -1
  /\ rq.pc = "sleep"

\* ------------------------------------ properties: a null is not delivered
\* C38: a null that a poll tick published reaches the callback of no
\* subscriber; what a callback gets is a door state.
C38_NullNotDelivered == lastDelivery.nul => lastDelivery.to = {}

\* PubSub delivered a null for a door that has a subscription.
C38_Witness ==
  /\ lastDelivery.nul /\ lastDelivery.to = {}
  /\ countSubscriptions(subs, lastDelivery.door) > 0

====
